---- MODULE Spec2Model ----
(***************************************************************************)
(* Segmented translation pipeline of Translate-It.                         *)
(*                                                                         *)
(*   BaseAIProvider          batch planner, streaming coordinator,         *)
(*                           combined request, per-segment fallback        *)
(*   TranslationUIManager    content-side stream handlers and the          *)
(*                           application of translations to text nodes     *)
(*   TranslationOrchestrator job start, caller-side error report, cancel   *)
(*                                                                         *)
(* The specifications share the variables:                                 *)
(*   SpecBatch   the batch planner applied to bounded inputs               *)
(*   SpecPlan    the batch planner on jobs of up to 30 segments            *)
(*   Spec        one streaming job: coordinator, messages, handlers        *)
(*   SpecLive    Spec with weak fairness of every step but the user's      *)
(*   SpecApply   streaming and final application onto text nodes           *)
(*   SpecSeg     segmentation, payload and reassembly of one request       *)
(*   SpecParse   _parseBatchResult applied to one reply                    *)
(*   SpecJobs    two requests of one content script in flight together     *)
(*   SpecStore   the success updates of one stream stored segment by       *)
(*               segment                                                   *)
(*   SpecEnd     Spec with a final application that can throw              *)
(*   SpecBlank   applications onto whitespace-only text nodes              *)
(*   SpecCleanup SelectElementManager.cleanup()                            *)
(*   SpecSpeak   speak() calls of the TTS composable                       *)
(*   SpecPoll    the cancellation poll of sendRegularMessage               *)
(***************************************************************************)
EXTENDS Integers, Sequences, FiniteSets, TLC

VARIABLES
    \* ---- batch planner (SpecBatch)
    bpTexts,        \* texts handed to _createOptimalBatches
    bpConfig,       \* batching configuration of the provider and mode
    bpBatches,      \* the batches returned
    bpPlanned,      \* whether _createOptimalBatches has run
    \* ---- one streaming job (Spec): the job's input
    jobTexts,       \* expandedTexts = textsToTranslate: one segment per unit
    jobBatchSize,   \* optimalSize of the provider's fixed batching
    \* ---- background: BaseAIProvider._streamingBatchTranslate
    coPc,           \* position of the coordinator
    coIdx,          \* batchIndex of the for-loop
    coError,        \* what the coordinator's catch block caught
    coBatches,      \* the batches made by _createOptimalBatches
    tasks,          \* per batch: the _translateBatch call started for it
    engineCancelled,\* engine.isCancelled(messageId)
    aborted,        \* abortController.signal.aborted
    dispatched,     \* history: the backend requests sent
    emitted,        \* history: the stream messages sent
    \* ---- messages
    channel,        \* stream messages on their way to the content script
    cancelPc,       \* progress of the cancellation sent to the background
    \* ---- content script: request registry, handlers, page
    reqStatus,      \* request.status; "none" when getRequest finds nothing
    reqHasErrors,   \* request.hasErrors
    translatedSegments, \* request.translatedSegments
    userCancelled,  \* requestManager.isUserCancelled(messageId)
    holders,        \* the text holders of request.textNodes
    handlers,       \* handlers suspended at an await
    callerPc,       \* position of processSelectedElement
    isTranslationInProgress, \* window.isTranslationInProgress
    shownErrors,    \* history: calls of showErrorToUser
    dropLog,        \* history: states in which a stream update was dropped
    \* ---- application onto text nodes (SpecApply)
    apApplied,      \* history: the applications made to holders, in order
    \* ---- segmentation and reassembly of one request (SpecSeg)
    sgTexts,        \* request.textsToTranslate
    sgSegments,     \* request.translatedSegments at the stream's end
    sgPc,           \* "new", "sent", "stream" or "direct"
    sgPayload,      \* the texts of jsonPayload
    sgReply,        \* translatedData of the non-streaming result
    sgFinal,        \* finalTranslatedData
    sgResult,       \* newTranslations, the reassembled Map
    \* ---- parsing of one combined reply (SpecParse)
    prBatch,        \* originalBatch
    prReply,        \* the reply handed to _parseBatchResult
    prResult,       \* what _parseBatchResult returned; <<>> before the call
    \* ---- two requests of one content script (SpecJobs)
    registry,       \* translationRequests: messageId -> request, with the
                    \* progress of the background's stream for it
    \* ---- other parts of the page (SpecCleanup, SpecSpeak, SpecPoll)
    mgr,            \* the SelectElementManager during cleanup()
    tts,            \* the TTS composable and its speak() calls
    poll            \* the messages of sendRegularMessage and their polls

bpVars == <<bpTexts, bpConfig, bpBatches, bpPlanned>>

jobVars == <<jobTexts, jobBatchSize>>

bgVars == <<coPc, coIdx, coError, coBatches, tasks, engineCancelled, aborted,
            dispatched, emitted>>

apVars == <<apApplied>>

segVars == <<sgTexts, sgSegments, sgPc, sgPayload, sgReply, sgFinal, sgResult>>

parseVars == <<prBatch, prReply, prResult>>

registryVars == <<registry>>

pageVars == <<mgr, tts, poll>>

contentVars == <<reqStatus, reqHasErrors, translatedSegments, userCancelled,
                 holders, handlers, callerPc, isTranslationInProgress,
                 shownErrors, dropLog>>

(***************************************************************************)
(* Generic helpers                                                         *)
(***************************************************************************)
Min(a, b) == IF a <= b THEN a ELSE b

Max(a, b) == IF a >= b THEN a ELSE b

RECURSIVE Flatten(_)
Flatten(ss) == IF ss = <<>> THEN <<>> ELSE Head(ss) \o Flatten(Tail(ss))

RECURSIVE SumLen(_)
SumLen(ts) == IF ts = <<>> THEN 0 ELSE Len(Head(ts)) + SumLen(Tail(ts))

\* Math.ceil(a / b) for a >= 0, b > 0
CeilDiv(a, b) == (a + b - 1) \div b

(***************************************************************************)
(* Texts are sequences of one-character strings.                           *)
(***************************************************************************)
Whitespace == {" ", "\n", "\t"}

SentenceEnd == {".", "!", "?"}

\* number of maximal runs of characters of S in t: (t.match(/[S]+/g) || []).length
Runs(t, S) ==
    Cardinality({i \in 1..Len(t) : t[i] \in S /\ (i = 1 \/ t[i-1] \notin S)})

\* text.trim().split(/\s+/).length : a blank text still splits into one piece
WordCount(t) ==
    LET w == Cardinality({i \in 1..Len(t) :
                 t[i] \notin Whitespace /\ (i = 1 \/ t[i-1] \in Whitespace)})
    IN  IF w = 0 THEN 1 ELSE w

(***************************************************************************)
(* BaseAIProvider: batch planner                                           *)
(***************************************************************************)
\* static optimalBatchSize, static maxComplexity: the class defaults
DefaultOptimalBatchSize == 15

DefaultMaxComplexity == 300

\* the smart planner's single-batch thresholds
SmartSingleSegments == 20

SmartSingleComplexity == 300

\* Math.round(min(length*0.5, 100) + sentences*2 + min(words*0.5, 20)),
\* computed in halves; Math.round rounds a half up
_calculateTextComplexity(text) ==
    IF text = <<>> THEN 0
    ELSE LET halves == Min(Len(text), 200)
                       + 4 * Runs(text, SentenceEnd)
                       + Min(WordCount(text), 40)
         IN  (halves + 1) \div 2

RECURSIVE _getTotalComplexity(_)
_getTotalComplexity(texts) ==
    IF texts = <<>> THEN 0
    ELSE _calculateTextComplexity(Head(texts)) + _getTotalComplexity(Tail(texts))

\* the for-loop of _createSmartBatches from text i on
RECURSIVE SmartLoop(_, _, _, _, _, _, _)
SmartLoop(texts, i, batches, currentBatch, currentComplexity, optimalSize, maxComplexity) ==
    IF i > Len(texts)
    THEN IF Len(currentBatch) > 0 THEN Append(batches, currentBatch) ELSE batches
    ELSE LET textComplexity == _calculateTextComplexity(texts[i])
             close == \/ Len(currentBatch) >= optimalSize
                      \/ (currentComplexity + textComplexity > maxComplexity
                          /\ Len(currentBatch) > 0)
         IN  IF close
             THEN SmartLoop(texts, i + 1, Append(batches, currentBatch),
                            <<texts[i]>>, textComplexity, optimalSize, maxComplexity)
             ELSE SmartLoop(texts, i + 1, batches,
                            Append(currentBatch, texts[i]),
                            currentComplexity + textComplexity,
                            optimalSize, maxComplexity)

\* a smart planner without the early exit to a single batch
SmartBatchesNoEarlyExit(texts, optimalSize, maxComplexity) ==
    SmartLoop(texts, 1, <<>>, <<>>, 0, optimalSize, maxComplexity)

\* a smart planner that closes a batch by its size only
SmartBatchesBySizeOnly(texts, optimalSize, maxComplexity) ==
    IF \/ Len(texts) <= Min(SmartSingleSegments, optimalSize)
       \/ _getTotalComplexity(texts) < Min(SmartSingleComplexity, maxComplexity)
    THEN <<texts>>
    ELSE SmartLoop(texts, 1, <<>>, <<>>, 0, optimalSize, _getTotalComplexity(texts))

\* _createSmartBatches without the push of the pending batch after the loop
SmartBatchesDropPending(texts, optimalSize, maxComplexity) ==
    IF \/ Len(texts) <= Min(SmartSingleSegments, optimalSize)
       \/ _getTotalComplexity(texts) < Min(SmartSingleComplexity, maxComplexity)
    THEN <<texts>>
    ELSE LET b == SmartLoop(texts, 1, <<>>, <<>>, 0, optimalSize, maxComplexity)
         IN  SubSeq(b, 1, Len(b) - 1)

_createSmartBatches(texts, optimalSize, maxComplexity) ==
    IF \/ Len(texts) <= Min(SmartSingleSegments, optimalSize)
       \/ _getTotalComplexity(texts) < Min(SmartSingleComplexity, maxComplexity)
    THEN <<texts>>
    ELSE SmartLoop(texts, 1, <<>>, <<>>, 0, optimalSize, maxComplexity)

\* for (i = 0; i < texts.length; i += batchSize) batches.push(texts.slice(i, i + batchSize))
RECURSIVE FixedLoop(_, _, _)
FixedLoop(texts, i, batchSize) ==
    IF i > Len(texts) THEN <<>>
    ELSE <<SubSeq(texts, i, Min(i + batchSize - 1, Len(texts)))>>
         \o FixedLoop(texts, i + batchSize, batchSize)

_createFixedBatches(texts, batchSize) == FixedLoop(texts, 1, batchSize)

\* the for-loop of _createCharacterBasedBatches from text i on
RECURSIVE CharLoop(_, _, _, _, _, _)
CharLoop(texts, i, batches, currentBatch, currentChars, targetBatchChars) ==
    IF i > Len(texts)
    THEN IF Len(currentBatch) > 0 THEN Append(batches, currentBatch) ELSE batches
    ELSE LET textLength == Len(texts[i])
             overflow == currentChars + textLength > targetBatchChars
                         /\ Len(currentBatch) > 0
             b1 == IF overflow THEN Append(batches, currentBatch) ELSE batches
             cb1 == IF overflow THEN <<>> ELSE currentBatch
             cc1 == IF overflow THEN 0 ELSE currentChars
         IN  IF textLength > targetBatchChars
             THEN CharLoop(texts, i + 1,
                           Append(IF Len(cb1) > 0 THEN Append(b1, cb1) ELSE b1,
                                  <<texts[i]>>),
                           <<>>, 0, targetBatchChars)
             ELSE CharLoop(texts, i + 1, b1, Append(cb1, texts[i]),
                           cc1 + textLength, targetBatchChars)

\* a character planner that pairs the segments whatever their lengths
CharacterBatchesInPairs(texts, maxCharsPerBatch, balancedBatching) ==
    IF SumLen(texts) <= maxCharsPerBatch THEN <<texts>>
    ELSE _createFixedBatches(texts, 2)

\* a character planner that never splits
CharacterBatchesNeverSplit(texts, maxCharsPerBatch, balancedBatching) == <<texts>>

_createCharacterBasedBatches(texts, maxCharsPerBatch, balancedBatching) ==
    LET totalChars == SumLen(texts)
    IN  IF totalChars <= maxCharsPerBatch THEN <<texts>>
        ELSE LET idealBatchCount == CeilDiv(totalChars, maxCharsPerBatch)
                 balancedBatchSize ==
                     CeilDiv(totalChars, Min(idealBatchCount + 1, Len(texts)))
                 targetBatchChars ==
                     IF balancedBatching
                     THEN Min(balancedBatchSize, maxCharsPerBatch)
                     ELSE maxCharsPerBatch
             IN  CharLoop(texts, 1, <<>>, <<>>, 0, targetBatchChars)

\* cfg: what _getBatchingConfig returns for the mode; 0 stands for a field that
\* is not set, for which `||` takes the class default
_createOptimalBatches(texts, cfg) ==
    LET optimalSize == IF cfg.optimalSize = 0 THEN DefaultOptimalBatchSize
                       ELSE cfg.optimalSize
        maxComplexity == IF cfg.maxComplexity = 0 THEN DefaultMaxComplexity
                         ELSE cfg.maxComplexity
    IN  IF cfg.translateMode = "select_element" /\ cfg.maxBatchSizeChars # 0
        THEN _createCharacterBasedBatches(texts, cfg.maxBatchSizeChars,
                                          cfg.balancedBatching)
        ELSE CASE cfg.strategy = "smart" ->
                      _createSmartBatches(texts, optimalSize, maxComplexity)
               [] cfg.strategy = "single" -> <<texts>>
               [] OTHER -> _createFixedBatches(texts, optimalSize)

(***************************************************************************)
(* String operations of the content side                                   *)
(***************************************************************************)
RECURSIVE TrimStart(_)
TrimStart(t) ==
    IF t # <<>> /\ Head(t) \in Whitespace THEN TrimStart(Tail(t)) ELSE t

RECURSIVE TrimEnd(_)
TrimEnd(t) ==
    IF t # <<>> /\ t[Len(t)] \in Whitespace
    THEN TrimEnd(SubSeq(t, 1, Len(t) - 1)) ELSE t

\* String.prototype.trim
Trim(t) == TrimEnd(TrimStart(t))

\* text.match(/^\s*/)[0]
LeadingWhitespace(t) == SubSeq(t, 1, Len(t) - Len(TrimStart(t)))

\* text.replace(/\s+/g, ' ')
RECURSIVE CollapseWhitespace(_)
CollapseWhitespace(t) ==
    IF t = <<>> THEN <<>>
    ELSE IF Head(t) \in Whitespace
         THEN <<" ">> \o CollapseWhitespace(TrimStart(t))
         ELSE <<Head(t)>> \o CollapseWhitespace(Tail(t))

\* text.replace(/\s+/g, '')
RECURSIVE RemoveWhitespace(_)
RemoveWhitespace(t) ==
    IF t = <<>> THEN <<>>
    ELSE IF Head(t) \in Whitespace THEN RemoveWhitespace(Tail(t))
         ELSE <<Head(t)>> \o RemoveWhitespace(Tail(t))

\* /^\s*$/.test(text)
IsBlank(t) == \A i \in 1..Len(t) : t[i] \in Whitespace

\* a.includes(b)
Includes(a, b) ==
    \E i \in 0..(Len(a) - Len(b)) : SubSeq(a, i + 1, i + Len(b)) = b

LowerOf(c) ==
    CASE c = "H" -> "h"
      [] c = "T" -> "t"
      [] OTHER -> c

\* text.toLowerCase()
ToLowerCase(t) == [i \in 1..Len(t) |-> LowerOf(t[i])]

\* text.split(/\s+/): the pieces between whitespace runs, empty pieces at a
\* leading or trailing run included
RECURSIVE SplitLoop(_, _)
SplitLoop(t, current) ==
    IF t = <<>> THEN <<current>>
    ELSE IF Head(t) \in Whitespace
         THEN <<current>> \o SplitLoop(TrimStart(t), <<>>)
         ELSE SplitLoop(Tail(t), Append(current, Head(t)))

SplitWhitespace(t) == SplitLoop(t, <<>>)

\* TranslationUIManager._calculateLevenshteinDistance
RECURSIVE _calculateLevenshteinDistance(_, _)
_calculateLevenshteinDistance(str1, str2) ==
    IF str1 = <<>> THEN Len(str2)
    ELSE IF str2 = <<>> THEN Len(str1)
    ELSE LET a == SubSeq(str1, 1, Len(str1) - 1)
             b == SubSeq(str2, 1, Len(str2) - 1)
         IN  IF str1[Len(str1)] = str2[Len(str2)]
             THEN _calculateLevenshteinDistance(a, b)
             ELSE 1 + Min(_calculateLevenshteinDistance(a, b),
                          Min(_calculateLevenshteinDistance(a, str2),
                              _calculateLevenshteinDistance(str1, b)))

(***************************************************************************)
(* A Map is a sequence of <<key, value>> pairs in insertion order; set()   *)
(* on a present key replaces the value and keeps the position.             *)
(***************************************************************************)
MapHas(m, k) == \E i \in 1..Len(m) : m[i][1] = k

MapGet(m, k) == m[CHOOSE i \in 1..Len(m) : m[i][1] = k][2]

MapSet(m, k, v) ==
    IF MapHas(m, k)
    THEN [i \in 1..Len(m) |-> IF m[i][1] = k THEN <<k, v>> ELSE m[i]]
    ELSE Append(m, <<k, v>>)

RECURSIVE MapSetAll(_, _, _)
MapSetAll(m, ks, v) ==
    IF ks = <<>> THEN m ELSE MapSetAll(MapSet(m, Head(ks), v), Tail(ks), v)

(***************************************************************************)
(* TranslationUIManager: application of translations to text nodes         *)
(*                                                                         *)
(* A text holder is the place of one text node of request.textNodes:       *)
(*   text      textContent of the text node                                *)
(*   attached  the text node has a parentNode                              *)
(*   inner     the text node lies in the inner span of a translation       *)
(*             wrapper left by an earlier application                      *)
(*   shown     the text the document shows at this place                   *)
(* Texts in the model are shorter than 20 characters, so the tiers of      *)
(* applyTranslationsToNodes for nodes over 20 or 50 characters and for     *)
(* translations over 20 or 30 characters are never entered.                *)
(***************************************************************************)
\* scores are fractions <<numerator, denominator>>
ScoreGreater(a, b) == a[1] * b[2] > b[1] * a[2]

ScoreMax(a, b) == IF ScoreGreater(b, a) THEN b ELSE a

\* /^\+?[\d\s\-()]+$/ on the trimmed key
PhoneChars == {"1", "2", "-", "(", ")"} \cup Whitespace

IsPhoneKey(t) ==
    LET body == IF t # <<>> /\ Head(t) = "+" THEN Tail(t) ELSE t
    IN  body # <<>> /\ \A i \in 1..Len(body) : body[i] \in PhoneChars

\* the keys of one translation without the padded variations of Strategy 6
LookupKeysUnpadded(originalKey) ==
    LET trimmedKey == Trim(originalKey)
        normalizedKey == Trim(CollapseWhitespace(originalKey))
        noWhitespaceKey == RemoveWhitespace(originalKey)
    IN  <<originalKey>>
        \o (IF trimmedKey # originalKey THEN <<trimmedKey>> ELSE <<>>)
        \o (IF normalizedKey # originalKey /\ normalizedKey # trimmedKey
            THEN <<normalizedKey>> ELSE <<>>)
        \o (IF noWhitespaceKey # originalKey THEN <<noWhitespaceKey>> ELSE <<>>)

\* the keys under which one entry of translations enters translationLookup,
\* in the order of the set() calls
LookupKeys(originalKey) ==
    LET trimmedKey == Trim(originalKey)
        normalizedKey == Trim(CollapseWhitespace(originalKey))
        noWhitespaceKey == RemoveWhitespace(originalKey)
    IN  <<originalKey>>
        \o (IF trimmedKey # originalKey THEN <<trimmedKey>> ELSE <<>>)
        \o (IF normalizedKey # originalKey /\ normalizedKey # trimmedKey
            THEN <<normalizedKey>> ELSE <<>>)
        \o (IF noWhitespaceKey # originalKey THEN <<noWhitespaceKey>> ELSE <<>>)
        \o (IF IsPhoneKey(trimmedKey)
            THEN << trimmedKey \o <<"\n">>, <<"\n">> \o trimmedKey,
                    <<"\n">> \o trimmedKey \o <<"\n">>,
                    trimmedKey \o <<"\n", " ">> >>
            ELSE <<>>)
        \o (IF Len(trimmedKey) > 0
            THEN << originalKey \o <<"\n">>, originalKey \o <<"\n", "\n">>,
                    originalKey \o <<" ">>, <<" ">> \o originalKey,
                    <<" ">> \o originalKey \o <<" ">> >>
            ELSE <<>>)

\* the loop that builds translationLookup from the translations Map
RECURSIVE BuildLookup(_, _)
BuildLookup(translations, lookup) ==
    IF translations = <<>> THEN lookup
    ELSE BuildLookup(Tail(translations),
                     MapSetAll(lookup, LookupKeys(Head(translations)[1]),
                               Head(translations)[2]))

\* number of words of a that occur among the words of b
CommonWords(a, b) ==
    Cardinality({i \in 1..Len(a) : \E j \in 1..Len(b) : b[j] = a[i]})

\* score of one lookup entry in the last-resort loop of applyTranslationsToNodes
FallbackScore(trimmedOriginalText, lookupKey) ==
    LET maxLength == Max(Len(lookupKey), Len(trimmedOriginalText))
        contains == IF \/ Includes(lookupKey, trimmedOriginalText)
                       \/ Includes(trimmedOriginalText, lookupKey)
                    THEN <<maxLength, 10>> ELSE <<0, 1>>
        originalWords == SplitWhitespace(ToLowerCase(trimmedOriginalText))
        lookupWords == SplitWhitespace(ToLowerCase(lookupKey))
        commonWords == CommonWords(originalWords, lookupWords)
        wordScore == <<commonWords * 50, Max(Len(originalWords), Len(lookupWords))>>
        afterWords == IF commonWords > 0 /\ ScoreGreater(wordScore, contains)
                      THEN wordScore ELSE contains
        distance == _calculateLevenshteinDistance(trimmedOriginalText, lookupKey)
        similarityScore == IF maxLength = 0 THEN <<0, 1>>
                           ELSE <<(maxLength - distance) * 100, maxLength>>
    IN  IF ScoreGreater(similarityScore, afterWords) THEN similarityScore
        ELSE afterWords

\* the loop over translationLookup.entries(): the first entry of the highest
\* score above 5; <<>> when there is none
RECURSIVE FallbackLoop(_, _, _, _, _)
FallbackLoop(lookup, i, text, bestMatch, bestScore) ==
    IF i > Len(lookup) THEN bestMatch
    ELSE LET score == FallbackScore(text, lookup[i][1])
         IN  IF ScoreGreater(score, bestScore) /\ ScoreGreater(score, <<5, 1>>)
             THEN FallbackLoop(lookup, i + 1, text, lookup[i][2], score)
             ELSE FallbackLoop(lookup, i + 1, text, bestMatch, bestScore)

\* the wrapper span with its inner span put in the place of the text node
WrapTranslation(h, originalText, translatedText) ==
    LET leadingWhitespace == LeadingWhitespace(originalText)
        processedText == IF leadingWhitespace # <<>> /\ Head(translatedText) # " "
                         THEN leadingWhitespace \o translatedText
                         ELSE translatedText
    IN  [h EXCEPT !.attached = FALSE, !.inner = FALSE, !.shown = processedText]

\* a translation found for a node with the matchStrategy / matchType the code
\* logs for it; text <<>> and type "none" when nothing was found
Match(translatedText, matchType) == [text |-> translatedText, type |-> matchType]

\* the three lookups for finalTranslation with the matchStrategy they set
FinalMatch(lookup, originalText) ==
    LET trimmedOriginalText == Trim(originalText)
        normalizedOriginal == Trim(CollapseWhitespace(originalText))
    IN  IF MapHas(lookup, originalText)
        THEN Match(MapGet(lookup, originalText), "exact")
        ELSE IF MapHas(lookup, trimmedOriginalText)
             THEN Match(MapGet(lookup, trimmedOriginalText), "trimmed")
        ELSE IF MapHas(lookup, normalizedOriginal)
             THEN Match(MapGet(lookup, normalizedOriginal), "normalized")
        ELSE Match(<<>>, "none")

\* the pick for an empty node: the longest of the translations of more than
\* 20 characters in the lookup table, the first of them in the table's order;
\* <<>> when there is none
RECURSIVE SubstantialLoop(_, _, _)
SubstantialLoop(lookup, i, best) ==
    IF i > Len(lookup) THEN best
    ELSE LET translationLength == Len(Trim(lookup[i][2]))
         IN  IF translationLength > 20 /\ translationLength > Len(Trim(best))
             THEN SubstantialLoop(lookup, i + 1, lookup[i][2])
             ELSE SubstantialLoop(lookup, i + 1, best)

\* finalTranslation with its matchStrategy: the three lookups, and for a node
\* of nothing but whitespace that they find nothing for, the substantial
\* translation
FinalTranslationMatch(lookup, originalText) ==
    LET found == FinalMatch(lookup, originalText)
        substantial == SubstantialLoop(lookup, 1, <<>>)
    IN  IF found.text = <<>> /\ Len(Trim(originalText)) = 0 /\ substantial # <<>>
        THEN Match(substantial, "empty_node_substantial_match")
        ELSE found

\* finalTranslation; <<>> when nothing is found
FinalLookup(lookup, originalText) == FinalTranslationMatch(lookup, originalText).text

\* the lookups for translatedText with the matchType they set, the last-resort
\* loop included
NodeMatch(lookup, originalText) ==
    LET found == FinalMatch(lookup, originalText)
        noWhitespaceOriginal == RemoveWhitespace(originalText)
        fallback == FallbackLoop(lookup, 1, Trim(originalText), <<>>, <<0, 1>>)
        lookupType == CASE found.type = "exact" -> "lookup_exact"
                        [] found.type = "trimmed" -> "lookup_trimmed"
                        [] OTHER -> "lookup_normalized"
    IN  IF found.text # <<>> THEN Match(found.text, lookupType)
        ELSE IF MapHas(lookup, noWhitespaceOriginal)
             THEN Match(MapGet(lookup, noWhitespaceOriginal), "lookup_no_whitespace")
        ELSE IF fallback # <<>> THEN Match(fallback, "fallback")
        ELSE Match(<<>>, "none")

\* the lookups for translatedText, the last-resort loop included
NodeLookup(lookup, originalText) == NodeMatch(lookup, originalText).text

\* the replacement decision for a node that already carries a translation
ShouldReplace(currentTranslation, finalTrimmed, isFinalResult) ==
    IF isFinalResult THEN currentTranslation # finalTrimmed
    ELSE /\ currentTranslation # finalTrimmed
         /\ \/ 10 * Len(finalTrimmed) > 11 * Len(currentTranslation)
            \/ 10 * Len(SplitWhitespace(finalTrimmed))
                   > 12 * Len(SplitWhitespace(currentTranslation))
            \/ 10 * Cardinality({ToLowerCase(finalTrimmed)[i] :
                                         i \in 1..Len(finalTrimmed)})
                   > 11 * Cardinality({ToLowerCase(currentTranslation)[i] :
                                         i \in 1..Len(currentTranslation)})

\* the part of the forEach body from the whitespace check on: look the node's
\* text up and put the wrapper in its place
ApplyLookupToNode(h, lookup) ==
    LET originalText == h.text
        translatedText == NodeLookup(lookup, originalText)
    IN  IF IsBlank(originalText) THEN h
        ELSE IF translatedText # <<>> /\ Trim(translatedText) # Trim(originalText)
             THEN WrapTranslation(h, originalText, translatedText)
             ELSE h

\* the forEach body of applyTranslationsToNodes for one text node
ApplyToNode(h, lookup, isFinalResult, skipStreamingUpdates) ==
    LET originalText == h.text
        trimmedOriginalText == Trim(originalText)
        isAlreadyTranslated == h.inner
        isTranslationCandidate == Len(trimmedOriginalText) > 0 \/ Len(originalText) > 20
        shouldProcessNode ==
            IF isFinalResult THEN isTranslationCandidate
            ELSE skipStreamingUpdates /\ isAlreadyTranslated /\ isTranslationCandidate
        finalTranslation == FinalLookup(lookup, originalText)
        \* the wrapper is removed and a clone of the text node appended
        unwrapped == [h EXCEPT !.attached = FALSE, !.inner = FALSE, !.shown = h.text]
    IN  IF ~h.attached THEN h
        ELSE IF shouldProcessNode /\ finalTranslation # <<>>
                /\ (h.inner \/ isFinalResult)
        THEN IF ~h.inner
             THEN [h EXCEPT !.attached = FALSE, !.shown = Trim(finalTranslation)]
             ELSE IF ShouldReplace(Trim(h.shown), Trim(finalTranslation), isFinalResult)
                  THEN ApplyLookupToNode(unwrapped, lookup)
                  ELSE h
        ELSE ApplyLookupToNode(h, lookup)

\* the forEach body returns from its first part: the node is processed there
\* and either written directly or left with the translation it carries
ReturnsEarly(h, lookup, isFinalResult, skipStreamingUpdates) ==
    LET originalText == h.text
        isTranslationCandidate == Len(Trim(originalText)) > 0 \/ Len(originalText) > 20
        shouldProcessNode ==
            IF isFinalResult THEN isTranslationCandidate
            ELSE skipStreamingUpdates /\ h.inner /\ isTranslationCandidate
        finalTranslation == FinalLookup(lookup, originalText)
    IN  /\ shouldProcessNode
        /\ finalTranslation # <<>>
        /\ (h.inner \/ isFinalResult)
        /\ (h.inner => ~ShouldReplace(Trim(h.shown), Trim(finalTranslation),
                                      isFinalResult))

\* what the forEach body of applyTranslationsToNodes logs for one text node:
\* the matchStrategy of the translation its first part settles on, the
\* matchType of the translation it wraps, "skipped" for a node it passes over,
\* "none" for a node it finds nothing for
NodeMatchType(h, lookup, isFinalResult, skipStreamingUpdates) ==
    IF ~h.attached THEN "skipped"
    ELSE IF ReturnsEarly(h, lookup, isFinalResult, skipStreamingUpdates)
         THEN FinalTranslationMatch(lookup, h.text).type
    ELSE IF IsBlank(h.text) THEN "skipped"
    ELSE NodeMatch(lookup, h.text).type

\* the nodes applyTranslationsToNodes pushes to unmatchedNodes: the else branch
\* of the test that guards the wrapping
UnmatchedNodes(textNodes, translations, isFinalResult, skipStreamingUpdates) ==
    LET lookup == BuildLookup(translations, <<>>)
    IN  { i \in DOMAIN textNodes :
            LET h == textNodes[i]
                translatedText == NodeLookup(lookup, h.text)
            IN  /\ h.attached
                /\ ~ReturnsEarly(h, lookup, isFinalResult, skipStreamingUpdates)
                /\ ~IsBlank(h.text)
                /\ ~(translatedText # <<>> /\ Trim(translatedText) # Trim(h.text)) }

\* applyTranslationsToNodes: translations is the Map from original text to
\* translation
applyTranslationsToNodes(textNodes, translations, isFinalResult, skipStreamingUpdates) ==
    LET translationLookup == BuildLookup(translations, <<>>)
    IN  [i \in DOMAIN textNodes |->
            ApplyToNode(textNodes[i], translationLookup, isFinalResult,
                        skipStreamingUpdates)]

\* textProcessing.findBestTranslationMatch, after the fuzzy tier of the
\* matching engine: containment scored by relative length, token overlap and
\* edit-distance similarity, in percent; the first entry of the highest score
\* at or above minScore, <<>> when there is none
FuzzyScore(text, key) ==
    LET a == Trim(text)
        b == Trim(key)
        maxLength == Max(Len(a), Len(b))
        minLength == Min(Len(a), Len(b))
        containment == IF minLength > 0 /\ (Includes(a, b) \/ Includes(b, a))
                       THEN <<minLength * 100, maxLength>> ELSE <<0, 1>>
        aWords == SplitWhitespace(ToLowerCase(a))
        bWords == SplitWhitespace(ToLowerCase(b))
        overlap == IF minLength = 0 THEN <<0, 1>>
                   ELSE <<CommonWords(aWords, bWords) * 100,
                          Max(Len(aWords), Len(bWords))>>
        similarity == IF maxLength = 0 THEN <<0, 1>>
                      ELSE <<(maxLength - _calculateLevenshteinDistance(a, b)) * 100,
                             maxLength>>
    IN  ScoreMax(containment, ScoreMax(overlap, similarity))

RECURSIVE FuzzyLoop(_, _, _, _, _, _)
FuzzyLoop(map, i, text, minScore, bestMatch, bestScore) ==
    IF i > Len(map) THEN bestMatch
    ELSE LET score == FuzzyScore(text, map[i][1])
         IN  IF ScoreGreater(score, bestScore) /\ ~ScoreGreater(<<minScore, 1>>, score)
             THEN FuzzyLoop(map, i + 1, text, minScore, map[i][2], score)
             ELSE FuzzyLoop(map, i + 1, text, minScore, bestMatch, bestScore)

findBestTranslationMatch(text, map, minScore) ==
    FuzzyLoop(map, 1, text, minScore, <<>>, <<0, 1>>)

StreamingMatchScore == 45

\* the lookups of _applyStreamingTranslationsImmediately for one text node with
\* the matchType they set
StreamingMatch(newTranslations, originalText) ==
    LET trimmedOriginalText == Trim(originalText)
        bestMatch == findBestTranslationMatch(originalText, newTranslations,
                                              StreamingMatchScore)
    IN  IF MapHas(newTranslations, trimmedOriginalText)
        THEN Match(MapGet(newTranslations, trimmedOriginalText),
                   "exact_trimmed_streaming")
        ELSE IF MapHas(newTranslations, originalText)
             THEN Match(MapGet(newTranslations, originalText), "exact_full_streaming")
        ELSE IF bestMatch # <<>> THEN Match(bestMatch, "fuzzy_streaming")
        ELSE Match(<<>>, "none")

\* the loop body of _applyStreamingTranslationsImmediately for one text node
ApplyStreamingToNode(h, newTranslations) ==
    LET originalText == h.text
        trimmedOriginalText == Trim(originalText)
        translatedText == StreamingMatch(newTranslations, originalText).text
    IN  IF ~h.attached \/ IsBlank(originalText) THEN h
        ELSE IF translatedText # <<>> /\ Trim(translatedText) # trimmedOriginalText
             THEN WrapTranslation(h, originalText, translatedText)
             ELSE h

_applyStreamingTranslationsImmediately(textNodes, newTranslations) ==
    [i \in DOMAIN textNodes |-> ApplyStreamingToNode(textNodes[i], newTranslations)]

\* the matchType _applyStreamingTranslationsImmediately settles on for one text
\* node, "skipped" for a node it passes over
StreamingMatchType(h, newTranslations) ==
    IF ~h.attached \/ IsBlank(h.text) THEN "skipped"
    ELSE StreamingMatch(newTranslations, h.text).type

(***************************************************************************)
(* One streaming job: inputs and backend replies                           *)
(***************************************************************************)
MaxJobSegments == 3

Letters == <<"a", "b", "c", "d", "e", "f">>

\* the segments of a job are distinct one-line texts
SegmentText(i) == <<Letters[i]>>

\* what the backend makes of a text: never the text itself
Translate(t) == <<"T">> \o t

\* a line of a reply that is not the expected JSON
GarbageLine == <<"g">>

\* translatedSegments.get(i) === undefined
Absent == <<"~">>

\* the provider's batching for the job: fixed batches of jobBatchSize segments
JobBatchingConfig(size) ==
    [translateMode |-> "select_element", strategy |-> "fixed",
     optimalSize |-> size, maxComplexity |-> 0,
     maxBatchSizeChars |-> 0, balancedBatching |-> FALSE]

ObjectItems(batch) ==
    [i \in 1..Len(batch) |-> [id |-> i - 1, text |-> Translate(batch[i])]]

Reverse(q) == [i \in 1..Len(q) |-> q[Len(q) + 1 - i]]

\* The replies a backend gives to the combined request of a batch.
\*   form   "objects": a JSON array of {id, text}; "strings": a JSON array of
\*          strings; "text": no JSON array; "null": no string at all
\*   items  the elements of the array
\*   lines  result.split('\\n')
BackendReplies(batch) ==
    LET n == Len(batch)
        raw == <<GarbageLine>>
    IN  { [form |-> "objects", items |-> ObjectItems(batch), lines |-> raw],
          [form |-> "objects", items |-> Reverse(ObjectItems(batch)), lines |-> raw],
          [form |-> "objects", items |-> SubSeq(ObjectItems(batch), 1, n - 1),
           lines |-> raw],
          [form |-> "objects",
           items |-> Append(ObjectItems(batch), [id |-> n, text |-> GarbageLine]),
           lines |-> raw],
          [form |-> "strings", items |-> <<Translate(batch[1])>>, lines |-> raw],
          [form |-> "strings", items |-> [i \in 1..n |-> Translate(batch[i])],
           lines |-> raw],
          [form |-> "text", items |-> <<>>, lines |-> raw],
          [form |-> "text", items |-> <<>>, lines |-> [i \in 1..n |-> GarbageLine]],
          [form |-> "null", items |-> <<>>, lines |-> <<>>] }

\* whether the reply is the expected list: a JSON array of expectedCount
\* objects.  A task records its reply as "list", as "count" (an array of
\* objects of another length), as "unparsed" (anything else that came back)
\* or as "error" (the request failed)
IsExpectedList(reply, expectedCount) ==
    reply.form = "objects" /\ Len(reply.items) = expectedCount

(***************************************************************************)
(* BaseAIProvider: parsing the combined reply                              *)
(***************************************************************************)
\* Array.prototype.sort((a, b) => a.id - b.id): stable
RECURSIVE SortById(_)
SortById(items) ==
    IF items = <<>> THEN <<>>
    ELSE LET m == CHOOSE i \in 1..Len(items) :
                      /\ \A j \in 1..Len(items) : items[i].id <= items[j].id
                      /\ \A j \in 1..(i - 1) : items[j].id # items[i].id
         IN  <<items[m]>>
             \o SortById([j \in 1..(Len(items) - 1) |->
                             IF j < m THEN items[j] ELSE items[j + 1]])

RECURSIVE PadWithOriginals(_, _, _)
PadWithOriginals(translatedTexts, expectedCount, originalBatch) ==
    IF Len(translatedTexts) >= expectedCount THEN translatedTexts
    ELSE PadWithOriginals(Append(translatedTexts,
                                 originalBatch[Len(translatedTexts) + 1]),
                          expectedCount, originalBatch)

_fallbackParsing(lines, expectedCount, originalBatch) ==
    LET nonEmptyLines == SelectSeq(lines, LAMBDA line : Trim(line) # <<>>)
    IN  IF Len(lines) > expectedCount /\ Len(nonEmptyLines) = expectedCount
        THEN nonEmptyLines
        ELSE IF Len(lines) = expectedCount THEN lines
        ELSE originalBatch

\* the result is [ok |-> FALSE] when _parseBatchResult throws
_parseBatchResult(result, expectedCount, originalBatch) ==
    LET parsed == result.items
        texts(items) == [i \in 1..Len(items) |-> items[i].text]
    IN  IF result.form = "null" THEN [ok |-> FALSE, texts |-> <<>>]
        ELSE IF result.form = "strings" /\ Len(parsed) = 1
             THEN [ok |-> TRUE, texts |-> <<parsed[1]>>]
        ELSE IF result.form = "objects" /\ Len(parsed) = expectedCount
             THEN [ok |-> TRUE, texts |-> texts(SortById(parsed))]
        ELSE IF result.form = "objects" /\ Len(parsed) > expectedCount
             THEN [ok |-> TRUE,
                   texts |-> texts(SortById(SubSeq(parsed, 1, expectedCount)))]
        ELSE IF result.form = "objects" /\ Len(parsed) > 0
             THEN [ok |-> TRUE,
                   texts |-> PadWithOriginals(texts(SortById(parsed)),
                                              expectedCount, originalBatch)]
        ELSE [ok |-> TRUE,
              texts |-> _fallbackParsing(result.lines, expectedCount, originalBatch)]

(***************************************************************************)
(* BaseAIProvider: stream messages                                         *)
(***************************************************************************)
_streamBatchResults(batchResults, originalBatch, batchIndex) ==
    [type |-> "update", success |-> TRUE, data |-> batchResults,
     originalData |-> originalBatch, batchIndex |-> batchIndex]

_streamErrorResults(batchIndex) ==
    [type |-> "update", success |-> FALSE, data |-> <<>>,
     originalData |-> <<>>, batchIndex |-> batchIndex]

\* a stream end that always carries the error flag
SendStreamEndAlwaysError(error) ==
    [type |-> "end", success |-> FALSE, data |-> <<>>,
     originalData |-> <<>>, batchIndex |-> -1]

_sendStreamEnd(error) ==
    [type |-> "end", success |-> ~error, data |-> <<>>,
     originalData |-> <<>>, batchIndex |-> -1]

_streamFallbackResult(result, original, segmentIndex) ==
    [type |-> "update", success |-> TRUE, data |-> result,
     originalData |-> original, batchIndex |-> segmentIndex]

\* who sends: the coordinator, or the task of batch k in its fallback loop
Coordinator == -1

\* browser.tabs.sendMessage, with the history of what was sent: by is "batch",
\* "fallback", "error" or "end", batch the index of the batch at work
Send(msg, by, batch) ==
    /\ channel' = Append(channel,
                      [from |-> IF by = "fallback" THEN batch ELSE Coordinator,
                       msg |-> msg])
    /\ emitted' = emitted \cup {[msg |-> msg, by |-> by, batch |-> batch]}

\* `await browser.tabs.sendMessage(...)`: the sender goes on once its message
\* has reached the content script
AwaitingSend(sender) == \E i \in 1..Len(channel) : channel[i].from = sender

(***************************************************************************)
(* BaseAIProvider: _translateBatch and _fallbackSingleRequests, one task   *)
(* per batch.  pc of a task:                                               *)
(*   "none"      not started          "queued"   waiting in the rate limiter*)
(*   "single"    request of a one-segment batch in flight                  *)
(*   "combined"  combined request in flight                                *)
(*   "fallback"  at the head of the per-segment loop, segment i            *)
(*   "fbdelay"   in the 3 s delay before segment i                         *)
(*   "fbreq"     request of segment i in flight                            *)
(*   "resolved", "rejected"  settled                                       *)
(*   "consumed"  resolved and streamed by the coordinator                  *)
(*   "caught"    rejected and caught by the coordinator                    *)
(***************************************************************************)
NoTask == [pc |-> "none", i |-> 0, res |-> <<>>, reply |-> "none", fb |-> FALSE]

Unsettled == {"queued", "single", "combined", "fallback", "fbdelay", "fbreq"}

Batch(k) == coBatches[k + 1]

BatchIndexes == 0..(Len(coBatches) - 1)

\* what a single-text request comes to: a translation, or an error (the 8 s
\* timeout of a fallback request included)
SingleOutcomes == {"ok", "error"}

\* result || text
SingleResult(outcome, text) == IF outcome = "ok" THEN Translate(text) ELSE text

\* the backend request leaves once the rate limiter lets the task run
TaskDispatch(k) ==
    /\ tasks[k].pc = "queued"
    /\ tasks' = [tasks EXCEPT ![k].pc =
                    IF Len(Batch(k)) = 1 THEN "single" ELSE "combined"]
    /\ dispatched' = dispatched \cup {[batch |-> k, seg |-> -1]}
    /\ UNCHANGED <<coPc, coIdx, coError, coBatches, engineCancelled, aborted,
                   emitted, channel>>

\* _translateBatch, batch.length === 1
SingleSettle(k) ==
    /\ tasks[k].pc = "single"
    /\ \E outcome \in SingleOutcomes :
          tasks' = [tasks EXCEPT ![k] =
              IF outcome = "error" THEN [@ EXCEPT !.pc = "rejected"]
              ELSE [@ EXCEPT !.pc = "resolved",
                             !.res = <<SingleResult(outcome, Batch(k)[1])>>]]
    /\ UNCHANGED <<coPc, coIdx, coError, coBatches, engineCancelled, aborted,
                   dispatched, emitted, channel>>

\* the task after the combined request settled with outcome: the parsed
\* results when their count matches, otherwise the start of the fallback
_translateBatch(task, outcome, batch) ==
    LET parsedResults == _parseBatchResult(outcome, Len(batch), batch)
        reply == IF outcome.form = "error" THEN "error"
                 ELSE IF IsExpectedList(outcome, Len(batch)) THEN "list"
                 ELSE IF outcome.form = "objects" THEN "count"
                 ELSE "unparsed"
    IN  IF outcome.form # "error" /\ parsedResults.ok
           /\ Len(parsedResults.texts) = Len(batch)
        THEN [task EXCEPT !.pc = "resolved", !.res = parsedResults.texts,
                          !.reply = reply]
        ELSE [task EXCEPT !.pc = "fallback", !.i = 0, !.res = <<>>,
                          !.reply = reply, !.fb = TRUE]

BackendError == [form |-> "error", items |-> <<>>, lines |-> <<>>]

CombinedSettle(k) ==
    /\ tasks[k].pc = "combined"
    /\ \E outcome \in BackendReplies(Batch(k)) \cup {BackendError} :
          tasks' = [tasks EXCEPT ![k] = _translateBatch(@, outcome, Batch(k))]
    /\ UNCHANGED <<coPc, coIdx, coError, coBatches, engineCancelled, aborted,
                   dispatched, emitted, channel>>

\* head of the loop of _fallbackSingleRequests
FallbackNext(k) ==
    /\ tasks[k].pc = "fallback"
    /\ ~AwaitingSend(k)
    /\ LET i == tasks[k].i
       IN  IF i >= Len(Batch(k))
           THEN /\ tasks' = [tasks EXCEPT ![k].pc = "resolved"]
                /\ UNCHANGED dispatched
           ELSE IF aborted
           THEN /\ tasks' = [tasks EXCEPT ![k].pc = "rejected"]
                /\ UNCHANGED dispatched
           ELSE IF i > 0
           THEN /\ tasks' = [tasks EXCEPT ![k].pc = "fbdelay"]
                /\ UNCHANGED dispatched
           ELSE /\ tasks' = [tasks EXCEPT ![k].pc = "fbreq"]
                /\ dispatched' = dispatched \cup {[batch |-> k, seg |-> i]}
    /\ UNCHANGED <<coPc, coIdx, coError, coBatches, engineCancelled, aborted,
                   emitted, channel>>

\* the delay is over: the request of segment i leaves
FallbackDispatch(k) ==
    /\ tasks[k].pc = "fbdelay"
    /\ tasks' = [tasks EXCEPT ![k].pc = "fbreq"]
    /\ dispatched' = dispatched \cup {[batch |-> k, seg |-> tasks[k].i]}
    /\ UNCHANGED <<coPc, coIdx, coError, coBatches, engineCancelled, aborted,
                   emitted, channel>>

\* the request of segment i settled: its result is pushed and streamed
FallbackSettle(k) ==
    /\ tasks[k].pc = "fbreq"
    /\ \E outcome \in SingleOutcomes :
          LET i == tasks[k].i
              text == Batch(k)[i + 1]
              translatedResult == SingleResult(outcome, text)
          IN  IF outcome = "error"
              THEN /\ tasks' = [tasks EXCEPT ![k].pc = "rejected"]
                   /\ UNCHANGED <<channel, emitted>>
              ELSE /\ tasks' = [tasks EXCEPT ![k].pc = "fallback", ![k].i = i + 1,
                                   ![k].res = Append(@, translatedResult)]
                   /\ Send(_streamFallbackResult(<<translatedResult>>, <<text>>, i),
                           "fallback", k)
    /\ UNCHANGED <<coPc, coIdx, coError, coBatches, engineCancelled, aborted,
                   dispatched>>

(***************************************************************************)
(* BaseAIProvider: _streamingBatchTranslate.  coPc:                        *)
(*   "idle"     not called yet      "check"   at the head of the for-loop  *)
(*   "race"     awaiting Promise.race of the batch and its timeout         *)
(*   "sendEnd"  in the catch block, error update sent, stream end not yet  *)
(*   "failed"   the catch block has thrown                                 *)
(*   "cancelled" the cancellation check has thrown    "done"  returned     *)
(***************************************************************************)
\* the translation request reaches the background: the batches are made
BgStart ==
    /\ coPc = "idle"
    /\ callerPc = "waiting"
    /\ coBatches' = _createOptimalBatches(jobTexts, JobBatchingConfig(jobBatchSize))
    /\ coPc' = "check"
    /\ coIdx' = 0
    /\ UNCHANGED <<coError, tasks, engineCancelled, aborted, dispatched,
                   emitted, channel>>

\* head of the for-loop: leave it after the last batch, throw on
\* cancellation, otherwise start the race of batch coIdx
CoCheck ==
    /\ coPc = "check"
    /\ ~AwaitingSend(Coordinator)
    /\ IF coIdx >= Len(coBatches)
       THEN /\ Send(_sendStreamEnd(FALSE), "end", coIdx)
            /\ coPc' = "done"
            /\ UNCHANGED <<coError, tasks>>
       ELSE IF aborted \/ engineCancelled
       THEN /\ coPc' = "cancelled"
            /\ coError' = "cancelled"
            /\ UNCHANGED <<tasks, channel, emitted>>
       ELSE /\ coPc' = "race"
            /\ tasks' = [tasks EXCEPT ![coIdx].pc = "queued"]
            /\ UNCHANGED <<coError, channel, emitted>>
    /\ UNCHANGED <<coIdx, coBatches, engineCancelled, aborted, dispatched>>

\* the batch won the race with its results
RaceResolved ==
    /\ coPc = "race"
    /\ tasks[coIdx].pc = "resolved"
    /\ Send(_streamBatchResults(tasks[coIdx].res, Batch(coIdx), coIdx),
            "batch", coIdx)
    /\ tasks' = [tasks EXCEPT ![coIdx].pc = "consumed"]
    /\ coIdx' = coIdx + 1
    /\ coPc' = "check"
    /\ UNCHANGED <<coError, coBatches, engineCancelled, aborted, dispatched>>

\* the batch won the race with an error: the catch block sends the error update
RaceRejected ==
    /\ coPc = "race"
    /\ tasks[coIdx].pc = "rejected"
    /\ Send(_streamErrorResults(coIdx), "error", coIdx)
    /\ tasks' = [tasks EXCEPT ![coIdx].pc = "caught"]
    /\ coError' = "failed"
    /\ coPc' = "sendEnd"
    /\ UNCHANGED <<coIdx, coBatches, engineCancelled, aborted, dispatched>>

\* _createBatchTimeoutPromise won the race: the catch block sends the error
\* update; the _translateBatch call goes on by itself
RaceTimeout ==
    /\ coPc = "race"
    /\ tasks[coIdx].pc \in Unsettled
    /\ Send(_streamErrorResults(coIdx), "error", coIdx)
    /\ coError' = "timeout"
    /\ coPc' = "sendEnd"
    /\ UNCHANGED <<coIdx, coBatches, tasks, engineCancelled, aborted, dispatched>>

\* a catch block that goes on with the next batch
LoopContinueAfterCatch(batchIndex) == [pc |-> "check", idx |-> batchIndex + 1]

\* end of the catch block: `throw error` leaves the loop
LoopAfterCatch(batchIndex) == [pc |-> "failed", idx |-> batchIndex]

\* rest of the catch block: stream end with the error flag, then the throw
CoSendEnd ==
    /\ coPc = "sendEnd"
    /\ ~AwaitingSend(Coordinator)
    /\ Send(_sendStreamEnd(TRUE), "end", coIdx)
    /\ coPc' = LoopAfterCatch(coIdx).pc
    /\ coIdx' = LoopAfterCatch(coIdx).idx
    /\ UNCHANGED <<coError, coBatches, tasks, engineCancelled, aborted, dispatched>>

\* the background's cancel handler: the engine's flag is set; whether the
\* request's AbortController is aborted is the engine's business
BgReceiveCancel ==
    /\ cancelPc = "sent"
    /\ coPc # "idle"
    /\ cancelPc' = "acked"
    /\ engineCancelled' = TRUE
    /\ \E a \in BOOLEAN : aborted' = a
    /\ UNCHANGED <<coPc, coIdx, coError, coBatches, tasks, dispatched, emitted,
                   channel>>

(***************************************************************************)
(* Request registry of the content script (TranslationRequestManager),     *)
(* after the job state machine:                                            *)
(*   pending -> streaming -> {completed | error}                           *)
(*   pending | streaming -> cancelled                                      *)
(*   streaming -> timeout -> {completed | error}                           *)
(* a transition the machine does not have is a no-op                       *)
(***************************************************************************)
Accepts(from, to) ==
    \/ from = "pending" /\ to \in {"streaming", "cancelled"}
    \/ from = "streaming" /\ to \in {"completed", "error", "cancelled", "timeout"}
    \/ from = "timeout" /\ to \in {"completed", "error"}

updateRequestStatus(status, to) == IF Accepts(status, to) THEN to ELSE status

createStreamingRequest == "pending"

cancelRequest(status) == updateRequestStatus(status, "cancelled")

\* getRequest finds nothing afterwards
removeRequest == "none"

hasActiveRequests(status) == status \in {"pending", "streaming"}

(***************************************************************************)
(* Segmentation and reassembly.  utils/textExtraction.js and               *)
(* utils/textProcessing.js are not among the sources at hand:              *)
(* expandTextsForTranslation and reassembleTranslations follow the         *)
(* description of the Segmenter and of the Reassembler.                    *)
(***************************************************************************)
LineBreak == "\n"

\* the text expandTextsForTranslation puts in place of a blank line
EmptyLinePlaceholder == <<"[[EMPTY_LINE]]">>

\* text.split('\n')
RECURSIVE SplitLinesLoop(_, _)
SplitLinesLoop(t, current) ==
    IF t = <<>> THEN <<current>>
    ELSE IF Head(t) = LineBreak
         THEN <<current>> \o SplitLinesLoop(Tail(t), <<>>)
         ELSE SplitLinesLoop(Tail(t), Append(current, Head(t)))

SplitLines(t) == SplitLinesLoop(t, <<>>)

\* lines.join('\n')
RECURSIVE JoinLines(_)
JoinLines(lines) ==
    IF lines = <<>> THEN <<>>
    ELSE IF Len(lines) = 1 THEN lines[1]
    ELSE lines[1] \o <<LineBreak>> \o JoinLines(Tail(lines))

\* the line breaks at the head of t
RECURSIVE LeadingLineBreaks(_)
LeadingLineBreaks(t) ==
    IF t # <<>> /\ Head(t) = LineBreak THEN 1 + LeadingLineBreaks(Tail(t)) ELSE 0

\* a replacement of /\n{2,}/g by one line break
RECURSIVE CollapseToSingleLineBreak(_)
CollapseToSingleLineBreak(t) ==
    IF t = <<>> THEN <<>>
    ELSE LET run == LeadingLineBreaks(t)
         IN  IF run >= 1
             THEN <<LineBreak>> \o CollapseToSingleLineBreak(SubSeq(t, run + 1, Len(t)))
             ELSE <<Head(t)>> \o CollapseToSingleLineBreak(Tail(t))

\* text.replace(/\n{3,}/g, '\n\n')
RECURSIVE CollapseLineBreaks(_)
CollapseLineBreaks(t) ==
    IF t = <<>> THEN <<>>
    ELSE LET run == LeadingLineBreaks(t)
         IN  IF run >= 3
             THEN <<LineBreak, LineBreak>> \o CollapseLineBreaks(SubSeq(t, run + 1, Len(t)))
             ELSE IF run >= 1
             THEN SubSeq(t, 1, run) \o CollapseLineBreaks(SubSeq(t, run + 1, Len(t)))
             ELSE <<Head(t)>> \o CollapseLineBreaks(Tail(t))

\* the segments of one unit: the unit itself when it has no line break,
\* otherwise one segment per line, a blank line standing as the placeholder
ExpandUnit(rawText, originalIndex) ==
    LET lines == SplitLines(rawText)
    IN  IF Len(lines) = 1
        THEN [expandedTexts |-> <<rawText>>,
              originMapping |-> <<[originalIndex |-> originalIndex, segmentIndex |-> 0,
                                   isEmptyLine |-> FALSE]>>]
        ELSE [expandedTexts |-> [j \in 1..Len(lines) |->
                                    IF Trim(lines[j]) = <<>> THEN EmptyLinePlaceholder
                                    ELSE lines[j]],
              originMapping |-> [j \in 1..Len(lines) |->
                                    [originalIndex |-> originalIndex, segmentIndex |-> j - 1,
                                     isEmptyLine |-> Trim(lines[j]) = <<>>]]]

RECURSIVE ExpandLoop(_, _)
ExpandLoop(textsToTranslate, k) ==
    IF k > Len(textsToTranslate) THEN [expandedTexts |-> <<>>, originMapping |-> <<>>]
    ELSE LET unit == ExpandUnit(textsToTranslate[k], k - 1)
             rest == ExpandLoop(textsToTranslate, k + 1)
         IN  [expandedTexts |-> unit.expandedTexts \o rest.expandedTexts,
              originMapping |-> unit.originMapping \o rest.originMapping]

\* textExtraction.expandTextsForTranslation
expandTextsForTranslation(textsToTranslate) == ExpandLoop(textsToTranslate, 1)

\* processSelectedElement: the placeholders become empty strings
filteredExpandedTexts(expandedTexts) ==
    [i \in 1..Len(expandedTexts) |->
        IF expandedTexts[i] = EmptyLinePlaceholder THEN <<>> ELSE expandedTexts[i]]

\* processSelectedElement: the items of jsonPayload, one {text} per entry of
\* filteredExpandedTexts
jsonPayload(filtered) == [i \in 1..Len(filtered) |-> [text |-> filtered[i]]]

\* the strings of finalTranslatedData that belong to unit originalIndex
RECURSIVE SegmentsOfUnit(_, _, _, _)
SegmentsOfUnit(finalData, originMapping, originalIndex, i) ==
    IF i > Len(finalData) \/ i > Len(originMapping) THEN <<>>
    ELSE (IF originMapping[i].originalIndex = originalIndex
          THEN <<finalData[i]>> ELSE <<>>)
         \o SegmentsOfUnit(finalData, originMapping, originalIndex, i + 1)

\* textProcessing.reassembleTranslations: the Map from each unit's original
\* text to its segments' strings rejoined with line breaks, a run of three or
\* more line breaks collapsed to two
reassembleTranslations(finalData, expandedTexts, originMapping, textsToTranslate) ==
    [k \in 1..Len(textsToTranslate) |->
        <<textsToTranslate[k],
          CollapseLineBreaks(JoinLines(SegmentsOfUnit(finalData, originMapping, k - 1, 1)))>>]

(***************************************************************************)
(* TranslationUIManager: stream handlers.  A handler suspended at an await *)
(* waits in handlers as [kind, map]:                                       *)
(*   "applyStream"  _applyStreamingTranslationsImmediately, map its        *)
(*                  newTranslations                                        *)
(*   "applyFinal"   applyTranslationsToNodes called by                     *)
(*                  _handleStreamEndSuccess, map its translations          *)
(*   "retry"        _handleStreamEndError awaiting retryWithFallbackProvider*)
(*   "showError"    _handleStreamEndError awaiting showErrorToUser         *)
(***************************************************************************)
\* entry checks that do not look for the error state
StreamUpdateDroppedNoError(status) ==
    \/ status = "none"
    \/ status = "cancelled" \/ status = "completed"

\* entry checks that also turn a timed-out request away
StreamUpdateDroppedInTimeout(status) ==
    \/ status = "none"
    \/ status = "cancelled" \/ status = "completed"
    \/ status = "error" \/ status = "timeout"

\* the entry checks of processStreamUpdate: no such request, or a request
\* that is cancelled, completed or in error
StreamUpdateDropped(status) ==
    \/ status = "none"
    \/ status = "cancelled" \/ status = "completed"
    \/ status = "error" \/ status = "completed"

\* expandedTexts.findIndex(text => text === originalText), 1-based; 0: none
findIndex(texts, originalText) ==
    IF \E i \in 1..Len(texts) : texts[i] = originalText
    THEN CHOOSE i \in 1..Len(texts) :
             /\ texts[i] = originalText
             /\ \A j \in 1..(i - 1) : texts[j] # originalText
    ELSE 0

\* the loop of _processStreamTranslationData from item i on: the segments
\* stored and the newlyAppliedTranslations collected
RECURSIVE StreamDataLoop(_, _, _, _, _)
StreamDataLoop(i, data, texts, segments, newly) ==
    IF i > Len(data.data) THEN [segments |-> segments, newly |-> newly]
    ELSE LET translatedText == data.data[i]
             expandedIndex == findIndex(texts, data.originalData[i])
             originalTextKey == texts[expandedIndex]
             hasMinimumContent ==
                 10 * Len(Trim(translatedText)) > Len(Trim(originalTextKey))
         IN  IF expandedIndex = 0
             THEN StreamDataLoop(i + 1, data, texts, segments, newly)
             ELSE StreamDataLoop(i + 1, data, texts,
                      [segments EXCEPT ![expandedIndex] = translatedText],
                      IF originalTextKey # <<>> /\ hasMinimumContent
                      THEN MapSet(newly, Trim(originalTextKey), translatedText)
                      ELSE newly)

\* JSON.parse(translatedText) of _handleStreamEndSuccess for the texts of
\* the model: the first element of an array that holds one string, Absent
\* where the text is no such array
JsonArrayFirstString(t) ==
    IF /\ Len(t) >= 4
       /\ t[1] = "[" /\ t[2] = "\"" /\ t[Len(t) - 1] = "\"" /\ t[Len(t)] = "]"
       /\ \A i \in 3..(Len(t) - 2) : t[i] \notin {"\"", "\\"}
    THEN SubSeq(t, 3, Len(t) - 2)
    ELSE Absent

\* finalTranslatedData without the branch for blank lines
FinalDataIgnoringEmptyLines(segments, expandedTexts, filtered, originMapping) ==
    [i \in 1..Len(expandedTexts) |->
        IF segments[i] # Absent THEN segments[i] ELSE filtered[i]]

\* the array _handleStreamEndSuccess builds from translatedSegments: a line
\* break for a blank line, the stored translation (of a lone segment, what
\* the JSON array in it holds), the original text where none is stored
finalTranslatedData(segments, expandedTexts, filtered, originMapping) ==
    [i \in 1..Len(expandedTexts) |->
        IF originMapping[i].isEmptyLine THEN <<LineBreak>>
        ELSE IF segments[i] # Absent
        THEN IF Len(expandedTexts) = 1 /\ JsonArrayFirstString(segments[i]) # Absent
             THEN JsonArrayFirstString(segments[i])
             ELSE segments[i]
        ELSE filtered[i]]

\* the array _processNonStreamingSuccess builds from translatedData:
\* translatedIndex moves on with every segment that is not a blank line
RECURSIVE NonStreamingLoop(_, _, _, _, _, _)
NonStreamingLoop(i, translatedIndex, translatedData, expandedTexts, filtered, originMapping) ==
    IF i > Len(expandedTexts) THEN <<>>
    ELSE IF originMapping[i].isEmptyLine
    THEN <<(<<LineBreak>>)>>
         \o NonStreamingLoop(i + 1, translatedIndex, translatedData, expandedTexts,
                             filtered, originMapping)
    ELSE <<(IF translatedIndex <= Len(translatedData)
               /\ translatedData[translatedIndex].text # <<>>
            THEN translatedData[translatedIndex].text
            ELSE IF filtered[i] # <<>> THEN filtered[i] ELSE expandedTexts[i])>>
         \o NonStreamingLoop(i + 1, translatedIndex + 1, translatedData, expandedTexts,
                             filtered, originMapping)

\* the newTranslations of _handleStreamEndSuccess for a request with these
\* textsToTranslate and translatedSegments
StreamEndTranslations(segments, textsToTranslate) ==
    LET expanded == expandTextsForTranslation(textsToTranslate)
    IN  reassembleTranslations(
            finalTranslatedData(segments, expanded.expandedTexts,
                                filteredExpandedTexts(expanded.expandedTexts),
                                expanded.originMapping),
            expanded.expandedTexts, expanded.originMapping, textsToTranslate)

\* the newTranslations of _processNonStreamingSuccess
NonStreamingTranslations(translatedData, textsToTranslate) ==
    LET expanded == expandTextsForTranslation(textsToTranslate)
    IN  reassembleTranslations(
            NonStreamingLoop(1, 1, translatedData, expanded.expandedTexts,
                             filteredExpandedTexts(expanded.expandedTexts),
                             expanded.originMapping),
            expanded.expandedTexts, expanded.originMapping, textsToTranslate)

RemoveAt(q, j) == [i \in 1..(Len(q) - 1) |-> IF i < j THEN q[i] ELSE q[i + 1]]

Suspended(kind, map) == [kind |-> kind, map |-> map]

\* _handleStreamEndError up to its first await: isRecoverableError decides
\* between the retry with another provider and the error shown to the user
EnterStreamEndError(shouldRetry) ==
    IF shouldRetry
    THEN /\ handlers' = Append(handlers, Suspended("retry", <<>>))
         /\ UNCHANGED shownErrors
    ELSE /\ handlers' = Append(handlers, Suspended("showError", <<>>))
         /\ shownErrors' = shownErrors + 1

\* processStreamUpdate up to its first await
DeliverUpdate ==
    /\ channel # <<>>
    /\ Head(channel).msg.type = "update"
    /\ channel' = Tail(channel)
    /\ LET data == Head(channel).msg
           stored == StreamDataLoop(1, data, jobTexts, translatedSegments, <<>>)
       IN  IF StreamUpdateDropped(reqStatus)
           THEN /\ dropLog' = dropLog \cup {reqStatus}
                /\ UNCHANGED <<reqHasErrors, translatedSegments, handlers,
                               isTranslationInProgress, shownErrors>>
           ELSE IF ~data.success
           THEN \* markRequestError, then processStreamEnd with success: false
                /\ reqHasErrors' = TRUE
                /\ isTranslationInProgress' = FALSE
                /\ \E shouldRetry \in BOOLEAN : EnterStreamEndError(shouldRetry)
                /\ UNCHANGED <<translatedSegments, dropLog>>
           ELSE /\ isTranslationInProgress' = TRUE
                /\ translatedSegments' = stored.segments
                /\ handlers' = IF stored.newly # <<>>
                               THEN Append(handlers, Suspended("applyStream", stored.newly))
                               ELSE handlers
                /\ UNCHANGED <<reqHasErrors, shownErrors, dropLog>>
    /\ UNCHANGED <<reqStatus, userCancelled, holders, callerPc>>

\* processStreamEnd up to its first await
DeliverEnd ==
    /\ channel # <<>>
    /\ Head(channel).msg.type = "end"
    /\ channel' = Tail(channel)
    /\ LET data == Head(channel).msg
       IN  IF reqStatus = "none" \/ reqStatus \in {"completed", "error"}
           THEN UNCHANGED <<reqStatus, handlers, isTranslationInProgress, shownErrors>>
           ELSE IF reqStatus = "cancelled"
           THEN /\ reqStatus' = removeRequest
                /\ UNCHANGED <<handlers, isTranslationInProgress, shownErrors>>
           ELSE /\ isTranslationInProgress' = FALSE
                /\ UNCHANGED reqStatus
                /\ IF ~data.success \/ reqHasErrors
                   THEN \E shouldRetry \in BOOLEAN : EnterStreamEndError(shouldRetry)
                   ELSE /\ handlers' = Append(handlers,
                               Suspended("applyFinal",
                                   StreamEndTranslations(translatedSegments, jobTexts)))
                        /\ UNCHANGED shownErrors
    /\ UNCHANGED <<reqHasErrors, translatedSegments, userCancelled, holders,
                   callerPc, dropLog>>

\* _applyStreamingTranslationsImmediately after its awaits
ResumeApplyStream(j) ==
    /\ handlers[j].kind = "applyStream"
    /\ holders' = _applyStreamingTranslationsImmediately(holders, handlers[j].map)
    /\ handlers' = RemoveAt(handlers, j)
    /\ UNCHANGED <<reqStatus, reqHasErrors, translatedSegments, userCancelled,
                   callerPc, isTranslationInProgress, shownErrors, dropLog>>

\* applyTranslationsToNodes after its awaits, and the rest of
\* _handleStreamEndSuccess
ResumeApplyFinal(j) ==
    /\ handlers[j].kind = "applyFinal"
    /\ holders' = applyTranslationsToNodes(holders, handlers[j].map, TRUE, TRUE)
    /\ reqStatus' = updateRequestStatus(reqStatus, "completed")
    /\ isTranslationInProgress' = FALSE
    /\ handlers' = RemoveAt(handlers, j)
    /\ UNCHANGED <<reqHasErrors, translatedSegments, userCancelled, callerPc,
                   shownErrors, dropLog>>

\* retryWithFallbackProvider has settled: on success the handler returns,
\* otherwise it shows the error
ResumeRetry(j) ==
    /\ handlers[j].kind = "retry"
    /\ \E retrySuccess \in BOOLEAN :
          IF retrySuccess
          THEN /\ handlers' = RemoveAt(handlers, j)
               /\ UNCHANGED shownErrors
          ELSE /\ handlers' = [handlers EXCEPT ![j] = Suspended("showError", <<>>)]
               /\ shownErrors' = shownErrors + 1
    /\ UNCHANGED <<reqStatus, reqHasErrors, translatedSegments, userCancelled,
                   holders, callerPc, isTranslationInProgress, dropLog>>

\* showErrorToUser has settled: the request is marked as failed
ResumeShowError(j) ==
    /\ handlers[j].kind = "showError"
    /\ reqStatus' = updateRequestStatus(reqStatus, "error")
    /\ handlers' = RemoveAt(handlers, j)
    /\ UNCHANGED <<reqHasErrors, translatedSegments, userCancelled, holders,
                   callerPc, isTranslationInProgress, shownErrors, dropLog>>

(***************************************************************************)
(* TranslationOrchestrator.  callerPc of processSelectedElement:           *)
(*   "idle"     not called        "waiting"  awaiting                      *)
(*                                           sendStreamingTranslationRequest*)
(*   "returned" returned {streaming: true}                                 *)
(*   "showing"  in the catch block, awaiting showErrorToUser               *)
(*   "thrown"   the catch block has rethrown                               *)
(*   "invalidated" thrown for an invalidated extension context            *)
(***************************************************************************)
\* processSelectedElement up to the await of sendStreamingTranslationRequest
StartJob ==
    /\ callerPc = "idle"
    /\ isTranslationInProgress' = TRUE
    /\ reqStatus' = updateRequestStatus(createStreamingRequest, "streaming")
    /\ callerPc' = "waiting"
    /\ UNCHANGED <<reqHasErrors, translatedSegments, userCancelled, holders,
                   handlers, shownErrors, dropLog>>

\* the request was acknowledged: processSelectedElement returns
CallerReturn ==
    /\ callerPc = "waiting"
    /\ coPc # "idle"
    /\ callerPc' = "returned"
    /\ UNCHANGED <<reqStatus, reqHasErrors, translatedSegments, userCancelled,
                   holders, handlers, isTranslationInProgress, shownErrors, dropLog>>

\* the request was rejected with what the coordinator threw: the catch block
\* up to its await, or to its end when it shows nothing
CallerCatch ==
    /\ callerPc = "waiting"
    /\ coPc \in {"failed", "cancelled"}
    /\ isTranslationInProgress' = FALSE
    /\ \E alreadyHandled \in BOOLEAN :
          IF userCancelled \/ coError = "cancelled" \/ alreadyHandled
          THEN /\ reqStatus' = removeRequest
               /\ callerPc' = "thrown"
               /\ UNCHANGED shownErrors
          ELSE /\ shownErrors' = shownErrors + 1
               /\ callerPc' = "showing"
               /\ UNCHANGED reqStatus
    /\ UNCHANGED <<reqHasErrors, translatedSegments, userCancelled, holders,
                   handlers, dropLog>>

\* rest of the catch block: removeRequest and rethrow
CallerCatchFinish ==
    /\ callerPc = "showing"
    /\ reqStatus' = removeRequest
    /\ callerPc' = "thrown"
    /\ UNCHANGED <<reqHasErrors, translatedSegments, userCancelled, holders,
                   handlers, isTranslationInProgress, shownErrors, dropLog>>

\* a variant of handleContextError that recognises no error
handleContextErrorNever(error) == FALSE

\* errorHandlerService.handleContextError: TRUE for the error of an
\* invalidated extension context, which it handles without telling the user
handleContextError(error) == error = "EXTENSION_CONTEXT_INVALIDATED"

\* processSelectedElement finds the extension context invalid at its start:
\* it throws before a request is made and before the flag is set
ContextInvalidAtStart ==
    /\ callerPc = "idle"
    /\ callerPc' = "invalidated"
    /\ UNCHANGED <<reqStatus, reqHasErrors, translatedSegments, userCancelled,
                   holders, handlers, isTranslationInProgress, shownErrors, dropLog>>

\* sendRegularMessage finds the extension context invalid and throws before
\* the message is sent: the catch block of processSelectedElement clears the
\* flag and rethrows what handleContextError recognises, else goes on as for
\* any other error
ContextInvalidAtSend ==
    /\ callerPc = "waiting"
    /\ coPc = "idle"
    /\ isTranslationInProgress' = FALSE
    /\ \E alreadyHandled \in BOOLEAN :
          IF handleContextError("EXTENSION_CONTEXT_INVALIDATED")
          THEN /\ callerPc' = "invalidated"
               /\ UNCHANGED <<reqStatus, shownErrors>>
          ELSE IF userCancelled \/ alreadyHandled
          THEN /\ reqStatus' = removeRequest
               /\ callerPc' = "thrown"
               /\ UNCHANGED shownErrors
          ELSE /\ shownErrors' = shownErrors + 1
               /\ callerPc' = "showing"
               /\ UNCHANGED reqStatus
    /\ UNCHANGED <<reqHasErrors, translatedSegments, userCancelled, holders,
                   handlers, dropLog>>

\* cancelAllTranslations while the request is active: the flag is cleared,
\* cancelAllRequests cancels the request and the cancellation is sent to the
\* background.  cancelPc: "none", "sent", "acked"
cancelAllTranslations ==
    /\ cancelPc = "none"
    /\ hasActiveRequests(reqStatus)
    /\ isTranslationInProgress' = FALSE
    /\ reqStatus' = cancelRequest(reqStatus)
    /\ userCancelled' = TRUE
    /\ cancelPc' = "sent"
    /\ UNCHANGED <<reqHasErrors, translatedSegments, holders, handlers, callerPc,
                   shownErrors, dropLog>>

\* the job-level "no progress" timer fires while the request is streaming:
\* the request is marked as timed out, what was stored and applied stays
NoProgressTimeout ==
    /\ reqStatus = "streaming"
    /\ reqStatus' = updateRequestStatus(reqStatus, "timeout")
    /\ UNCHANGED <<reqHasErrors, translatedSegments, userCancelled, holders,
                   handlers, callerPc, isTranslationInProgress, shownErrors,
                   dropLog>>

(***************************************************************************)
(* SpecBatch: the planner applied to bounded inputs                        *)
(***************************************************************************)
MaxSegments == 4

\* sample texts: lengths 0..4, complexities 0, 1, 2, 3, 4
SampleTexts ==
    { <<>>, <<"a">>, <<"a", "b">>, <<"a", " ", "b">>, <<"a", ".">>,
      <<"a", "b", " ", "c">> }

RECURSIVE SeqsUpTo(_, _)
SeqsUpTo(S, n) ==
    IF n = 0 THEN {<<>>}
    ELSE LET shorter == SeqsUpTo(S, n - 1)
         IN  shorter \cup {Append(s, x) : s \in {t \in shorter : Len(t) = n - 1}, x \in S}

\* configurations: character budget (select_element with maxBatchSizeChars),
\* and the three named strategies with set and unset sizes
BatchConfigs ==
    [translateMode : {"select_element"}, strategy : {"smart"},
     optimalSize : {0}, maxComplexity : {0},
     maxBatchSizeChars : {2, 3, 5}, balancedBatching : BOOLEAN]
    \cup
    [translateMode : {"select_element", "selection"},
     strategy : {"smart", "single", "fixed"},
     optimalSize : {0, 1, 2}, maxComplexity : {0, 2, 4},
     maxBatchSizeChars : {0}, balancedBatching : {FALSE}]

\* the planner's variables while another specification runs
PlannerAtRest ==
    /\ bpTexts = <<>>
    /\ bpConfig = JobBatchingConfig(1)
    /\ bpBatches = <<>>
    /\ bpPlanned = FALSE

\* no application recorded
ApplyAtRest == apApplied = <<>>

\* the manager, the TTS composable and the messaging while another
\* specification runs
MgrAtRest == mgr = <<>>

TtsAtRest == tts = <<>>

PollAtRest == poll = <<>>

PageAtRest == MgrAtRest /\ TtsAtRest /\ PollAtRest

\* the segmentation and parsing variables while another specification runs
RegistryAtRest == registry = <<>>

SegAtRest ==
    /\ RegistryAtRest
    /\ prBatch = <<>>
    /\ prReply = <<>>
    /\ prResult = <<>>
    /\ sgTexts = <<>>
    /\ sgSegments = <<>>
    /\ sgPc = "new"
    /\ sgPayload = <<>>
    /\ sgReply = <<>>
    /\ sgFinal = <<>>
    /\ sgResult = <<>>

NewHolder(text) == [text |-> text, attached |-> TRUE, inner |-> FALSE, shown |-> text]

\* the job's variables before processSelectedElement is called
JobInitNodes(texts, size, nodeTexts) ==
    /\ jobTexts = texts
    /\ jobBatchSize = size
    /\ coPc = "idle"
    /\ coIdx = 0
    /\ coError = "none"
    /\ coBatches = <<>>
    /\ tasks = [k \in 0..(Len(texts) - 1) |-> NoTask]
    /\ engineCancelled = FALSE
    /\ aborted = FALSE
    /\ dispatched = {}
    /\ emitted = {}
    /\ channel = <<>>
    /\ cancelPc = "none"
    /\ reqStatus = "none"
    /\ reqHasErrors = FALSE
    /\ translatedSegments = [i \in 1..Len(texts) |-> Absent]
    /\ userCancelled = FALSE
    /\ holders = [i \in 1..Len(texts) |-> NewHolder(nodeTexts[i])]
    /\ handlers = <<>>
    /\ callerPc = "idle"
    /\ isTranslationInProgress = FALSE
    /\ shownErrors = 0
    /\ dropLog = {}

\* a job whose texts are the texts of its text nodes
JobInit(texts, size) == JobInitNodes(texts, size, texts)

\* the job's variables while another specification runs
JobAtRest == JobInit(<<>>, 1)

InitBatch ==
    /\ bpTexts \in SeqsUpTo(SampleTexts, MaxSegments)
    /\ bpConfig \in BatchConfigs
    /\ bpBatches = <<>>
    /\ bpPlanned = FALSE
    /\ JobAtRest
    /\ ApplyAtRest
    /\ PageAtRest
    /\ SegAtRest

PlanBatches ==
    /\ ~bpPlanned
    /\ bpBatches' = _createOptimalBatches(bpTexts, bpConfig)
    /\ bpPlanned' = TRUE
    /\ UNCHANGED <<bpTexts, bpConfig>>

vars == <<bpVars, jobVars, bgVars, channel, cancelPc, contentVars, apVars, segVars, parseVars, registryVars, pageVars>>

NextBatch ==
    PlanBatches
    /\ UNCHANGED <<jobVars, bgVars, channel, cancelPc, contentVars, apVars, segVars, parseVars, registryVars, pageVars>>

SpecBatch == InitBatch /\ [][NextBatch]_vars

(***************************************************************************)
(* Spec: one streaming job of 1..MaxJobSegments segments                   *)
(***************************************************************************)
Init ==
    /\ PlannerAtRest
    /\ ApplyAtRest
    /\ PageAtRest
    /\ SegAtRest
    /\ \E n \in 1..MaxJobSegments : \E size \in 1..n :
          JobInit([i \in 1..n |-> SegmentText(i)], size)

\* what the steps of the background, of a delivery and of the content script
\* leave alone
BgFrame == UNCHANGED <<bpVars, jobVars, cancelPc, contentVars, apVars, segVars, parseVars, registryVars, pageVars>>

DeliverFrame == UNCHANGED <<bpVars, jobVars, bgVars, cancelPc, apVars, segVars, parseVars, registryVars, pageVars>>

ContentFrame == UNCHANGED <<bpVars, jobVars, bgVars, channel, cancelPc, apVars, segVars, parseVars, registryVars, pageVars>>

Next ==
    \/ BgStart /\ BgFrame
    \/ CoCheck /\ BgFrame
    \/ RaceResolved /\ BgFrame
    \/ RaceRejected /\ BgFrame
    \/ RaceTimeout /\ BgFrame
    \/ CoSendEnd /\ BgFrame
    \/ (\E k \in BatchIndexes : TaskDispatch(k)) /\ BgFrame
    \/ (\E k \in BatchIndexes : SingleSettle(k)) /\ BgFrame
    \/ (\E k \in BatchIndexes : CombinedSettle(k)) /\ BgFrame
    \/ (\E k \in BatchIndexes : FallbackNext(k)) /\ BgFrame
    \/ (\E k \in BatchIndexes : FallbackDispatch(k)) /\ BgFrame
    \/ (\E k \in BatchIndexes : FallbackSettle(k)) /\ BgFrame
    \/ BgReceiveCancel /\ UNCHANGED <<bpVars, jobVars, contentVars, apVars, segVars, parseVars, registryVars, pageVars>>
    \/ DeliverUpdate /\ DeliverFrame
    \/ DeliverEnd /\ DeliverFrame
    \/ StartJob /\ ContentFrame
    \/ CallerReturn /\ ContentFrame
    \/ CallerCatch /\ ContentFrame
    \/ CallerCatchFinish /\ ContentFrame
    \/ ContextInvalidAtStart /\ ContentFrame
    \/ ContextInvalidAtSend /\ ContentFrame
    \/ (\E j \in 1..Len(handlers) : ResumeApplyStream(j)) /\ ContentFrame
    \/ (\E j \in 1..Len(handlers) : ResumeApplyFinal(j)) /\ ContentFrame
    \/ (\E j \in 1..Len(handlers) : ResumeRetry(j)) /\ ContentFrame
    \/ (\E j \in 1..Len(handlers) : ResumeShowError(j)) /\ ContentFrame
    \/ cancelAllTranslations
           /\ UNCHANGED <<bpVars, jobVars, bgVars, channel, apVars, segVars, parseVars, registryVars, pageVars>>
    \/ NoProgressTimeout /\ ContentFrame

Spec == Init /\ [][Next]_vars

(***************************************************************************)
(* SpecApply: streaming, non-final and final applications onto the text    *)
(* nodes of one request, in any order                                      *)
(***************************************************************************)
MaxApplications == 2

MaxApplyNodes == 2

\* texts of text nodes: "Hi", " Hi" and "bye"
ApplyTexts == { <<"H", "i">>, <<" ", "H", "i">>, <<"b", "y", "e">>,
                <<" ", "H", "e", "l", "l", "o", " ">> }

\* translations: "He", "Hello", and "Hi", which leaves a node "Hi" as it is
ApplyResults == { <<"H", "e">>, <<"H", "e", "l", "l", "o">>, <<"H", "i">> }

\* the translation Maps over the texts of the request: some of the texts,
\* in the order of textsToTranslate, each with one result
RECURSIVE ApplyMaps(_)
ApplyMaps(texts) ==
    IF texts = <<>> THEN {<<>>}
    ELSE LET rest == ApplyMaps(Tail(texts))
         IN  rest \cup { MapSet(<< <<Head(texts), r>> >> \o m, Head(texts), r) :
                           m \in {x \in rest : ~MapHas(x, Head(texts))},
                           r \in ApplyResults }

Application(mode, translations, matchTypes, unmatched) ==
    [mode |-> mode, final |-> mode = "final", map |-> translations,
     matchTypes |-> matchTypes, unmatched |-> unmatched]

InitApply ==
    /\ PlannerAtRest
    /\ ApplyAtRest
    /\ PageAtRest
    /\ SegAtRest
    /\ \E nodeTexts \in SeqsUpTo(ApplyTexts, MaxApplyNodes) :
       \E texts \in SeqsUpTo(ApplyTexts \cup {Trim(t) : t \in ApplyTexts},
                              MaxApplyNodes) :
          /\ nodeTexts # <<>>
          /\ \A i, j \in 1..Len(nodeTexts) : i # j => nodeTexts[i] # nodeTexts[j]
          /\ Len(texts) = Len(nodeTexts)
          /\ \A i \in 1..Len(texts) : texts[i] \in {nodeTexts[i], Trim(nodeTexts[i])}
          /\ \A i, j \in 1..Len(texts) : i # j => texts[i] # texts[j]
          /\ JobInitNodes(texts, 1, nodeTexts)

\* a stream update's translations reach the text nodes
ApplyStreaming ==
    /\ Len(apApplied) < MaxApplications
    /\ \E newTranslations \in ApplyMaps(jobTexts) \ {<<>>} :
          /\ holders' = _applyStreamingTranslationsImmediately(holders, newTranslations)
          /\ apApplied' = Append(apApplied,
                Application("streaming", newTranslations,
                            [i \in DOMAIN holders |->
                                StreamingMatchType(holders[i], newTranslations)],
                            {}))

\* applyTranslationsToNodes without isFinalResult
ApplyNonFinal ==
    /\ Len(apApplied) < MaxApplications
    /\ \E translations \in ApplyMaps(jobTexts) \ {<<>>} :
       \E skipStreamingUpdates \in BOOLEAN :
          /\ holders' = applyTranslationsToNodes(holders, translations, FALSE,
                                                 skipStreamingUpdates)
          /\ apApplied' = Append(apApplied,
                Application("non-final", translations,
                            [i \in DOMAIN holders |->
                                NodeMatchType(holders[i],
                                              BuildLookup(translations, <<>>),
                                              FALSE, skipStreamingUpdates)],
                            UnmatchedNodes(holders, translations, FALSE,
                                           skipStreamingUpdates)))

\* the application of _handleStreamEndSuccess: the final result
ApplyFinal ==
    /\ Len(apApplied) < MaxApplications
    /\ \E translations \in ApplyMaps(jobTexts) \ {<<>>} :
          /\ holders' = applyTranslationsToNodes(holders, translations, TRUE, TRUE)
          /\ apApplied' = Append(apApplied,
                Application("final", translations,
                            [i \in DOMAIN holders |->
                                NodeMatchType(holders[i],
                                              BuildLookup(translations, <<>>),
                                              TRUE, TRUE)],
                            UnmatchedNodes(holders, translations, TRUE, TRUE)))

ApplyFrame ==
    UNCHANGED <<bpVars, jobVars, bgVars, channel, cancelPc, reqStatus,
                reqHasErrors, translatedSegments, userCancelled, handlers,
                callerPc, isTranslationInProgress, shownErrors, dropLog,
                segVars, parseVars, registryVars, pageVars>>

NextApply ==
    \/ ApplyStreaming /\ ApplyFrame
    \/ ApplyNonFinal /\ ApplyFrame
    \/ ApplyFinal /\ ApplyFrame

SpecApply == InitApply /\ [][NextApply]_vars

(***************************************************************************)
(* Claims about the batch planner                                          *)
(***************************************************************************)
\* C1: for every strategy (single, smart, fixed, character budget) and every
\* input, the batches concatenated in batch order are exactly the input
\* sequence: no segment lost, duplicated or moved.
C1_BatchCoverage ==
    bpPlanned => Flatten(bpBatches) = bpTexts

\* a plan of three or more batches made by the smart strategy
C1_Witness ==
    /\ bpPlanned
    /\ bpConfig.strategy = "smart"
    /\ bpConfig.maxBatchSizeChars = 0
    /\ Len(bpBatches) >= 3

(***************************************************************************)
(* Claims about the streaming job                                          *)
(***************************************************************************)
\* the batches a backend request was sent for
DispatchedBatches == {d.batch : d \in dispatched}

\* the stream updates sent so far
EmittedUpdates == {e \in emitted : e.msg.type = "update"}

\* nothing of the job is left to run
JobSettled ==
    /\ coPc \in {"done", "failed", "cancelled"}
    /\ \A k \in BatchIndexes : tasks[k].pc \notin Unsettled
    /\ channel = <<>>
    /\ handlers = <<>>
    /\ callerPc \in {"returned", "thrown"}
    /\ cancelPc # "sent"

\* batch k failed hard after the batches before it succeeded: its request,
\* or a request of its fallback, failed and the coordinator caught the failure
HardFailure(k) ==
    /\ tasks[k].pc = "caught"
    /\ \A j \in 0..(k - 1) : tasks[j].pc = "consumed"

\* C2: fail-fast.  Once batch k has failed hard after batches 0..k-1
\* succeeded, no backend request has been sent for a batch after k and no
\* stream update carries the batchIndex of a batch after k.
C2_FailFast ==
    \A k \in BatchIndexes :
        HardFailure(k) =>
            /\ \A d \in dispatched : d.batch <= k
            /\ \A e \in EmittedUpdates : e.msg.batchIndex <= k

\* batch 0 completed: its results are there, by the combined request or by
\* the per-segment fallback
Batch0Completed == tasks[0].pc \in {"resolved", "consumed"}

\* the stream updates among msgs that carry batchIndex 1
UpdatesOfBatch1(msgs) ==
    {e \in msgs : e.msg.type = "update" /\ e.msg.batchIndex = 1}

\* the background knows of the cancellation, batch 0 has completed and
\* batch 1 is not started
CutOff ==
    /\ engineCancelled
    /\ 1 \in BatchIndexes
    /\ Batch0Completed
    /\ tasks[1].pc = "none"

\* C3: cancellation cutoff.  When the background observes the cancellation
\* after batch 0 completed and before batch 1 is started, no stream update
\* with batchIndex 1 has been emitted, whichever way batch 0 completed; from
\* then on batch 1 is not started, no request is sent for it and no stream
\* update with batchIndex 1 is emitted.
CutoffStep ==
    /\ (~engineCancelled /\ CutOff') => UpdatesOfBatch1(emitted') = {}
    /\ CutOff => /\ tasks'[1].pc = "none"
                 /\ 1 \notin {d.batch : d \in dispatched'}
                 /\ UpdatesOfBatch1(emitted') = UpdatesOfBatch1(emitted)

C3_CancellationCutoff == [][CutoffStep]_vars

\* the step in which a stream update reaches the content script
UpdateArrives ==
    /\ channel # <<>>
    /\ Head(channel).msg.type = "update"
    /\ channel' = Tail(channel)

\* C4: a stream update that arrives while the job is completed, in error or
\* cancelled changes neither translatedSegments nor the job's state nor any
\* text holder, and starts no handler: it is dropped.
LateUpdateStep ==
    (UpdateArrives /\ reqStatus \in {"completed", "error", "cancelled"})
    => (/\ translatedSegments' = translatedSegments
        /\ reqStatus' = reqStatus
        /\ holders' = holders
        /\ handlers' = handlers)

C4_LateUpdateDropped == [][LateUpdateStep]_vars

\* an update was dropped after the job had failed, with translations stored
\* and shown before
C4_Witness ==
    /\ "error" \in dropLog
    /\ \E i \in 1..Len(translatedSegments) : translatedSegments[i] # Absent
    /\ \E i \in 1..Len(holders) : holders[i].shown # holders[i].text

\* the handlers that run the completion or error handling of a stream end
StreamEndHandlers ==
    {j \in 1..Len(handlers) : handlers[j].kind \in {"applyFinal", "retry", "showError"}}

\* C5: under every interleaving, the completion or error handling of a job
\* runs at most once at a time (a second stream end does not run it again
\* while the first is suspended), and a job that left pending/streaming for
\* cancelled, completed or error is not given another state afterwards.
FinalStateStep ==
    reqStatus \in {"cancelled", "completed", "error"}
    => reqStatus' \in {reqStatus, "none"}

C5_SingleTransition ==
    /\ [](Cardinality(StreamEndHandlers) <= 1)
    /\ [][FinalStateStep]_vars

\* C6: when the timeout of a multi-segment batch fires while its combined
\* request is in flight, the batch goes to its per-segment fallback as it
\* does on a backend error, and no success=false update is sent for it in
\* that step.
TimeoutStep ==
    (/\ coPc = "race"
     /\ tasks[coIdx].pc = "combined"
     /\ Len(Batch(coIdx)) >= 2
     /\ coError' = "timeout")
    => (/\ tasks'[coIdx].fb
        /\ ~\E e \in emitted' : e.by = "error" /\ e.batch = coIdx)

C6_TimeoutFallsBack == [][TimeoutStep]_vars

\* C7: a multi-segment batch whose combined reply could not be parsed into
\* the list of items has been handed to the per-segment fallback; it is
\* never resolved from the malformed reply.
C7_MalformedReplyFallsBack ==
    \A k \in BatchIndexes :
        tasks[k].reply = "unparsed" => tasks[k].fb

\* the job failed because a request of the per-segment fallback failed: the
\* coordinator caught the failure of a batch that had fallen back
FallbackFailed ==
    /\ coError = "failed"
    /\ tasks[coIdx].fb
    /\ tasks[coIdx].pc = "caught"

\* C8: when the job fails because the fallback failed too, showErrorToUser
\* is called at most once while the failure is announced, and exactly once
\* by the time the job has ended in the error state.
C8_ErrorShownOnce ==
    FallbackFailed =>
        /\ shownErrors <= 1
        /\ (JobSettled /\ reqStatus = "error") => shownErrors = 1

\* C10: the work for a batch is started only after the work for the batch
\* before it has settled and its results were streamed, and at most one
\* batch has unsettled work, also after a timeout won the race.
C10_BatchesInOrder ==
    /\ \A k \in BatchIndexes :
          (k > 0 /\ tasks[k].pc # "none") =>
              /\ tasks[k - 1].pc = "consumed"
              /\ \E e \in emitted : e.by = "batch" /\ e.batch = k - 1
    /\ Cardinality({k \in BatchIndexes : tasks[k].pc \in Unsettled}) <= 1

\* the timeout of the second batch won the race while its request is still
\* running, and a third batch is left
C10_Witness ==
    /\ coError = "timeout"
    /\ coPc = "failed"
    /\ coIdx = 1
    /\ tasks[1].pc \in Unsettled
    /\ 2 \in BatchIndexes
    /\ tasks[2].pc = "none"

(***************************************************************************)
(* Claims about the application onto text nodes                            *)
(***************************************************************************)
\* the holder shows the result of a non-final application, and no final
\* result was applied so far
ShowsNonFinalResult(i) ==
    /\ holders[i].shown # holders[i].text
    /\ \A n \in 1..Len(apApplied) : ~apApplied[n].final

\* C9: authority override.  When a final result is applied for a holder that
\* shows a non-final result, the holder shows the final result afterwards
\* ("He" applied by a stream update, then the final "Hello": "Hello").
FinalOverrideStep ==
    \A i \in 1..Len(holders) :
        LET last == apApplied'[Len(apApplied')]
        IN  (/\ Len(apApplied') = Len(apApplied) + 1
             /\ last.final
             /\ ShowsNonFinalResult(i)
             /\ MapHas(last.map, holders[i].text)
             /\ MapGet(last.map, holders[i].text) # Trim(holders[i].text))
            => Trim(holders'[i].shown) = MapGet(last.map, holders[i].text)

C9_FinalOverrides == [][FinalOverrideStep]_vars

(***************************************************************************)
(* SpecLive: the streaming job under scheduling that lets every pending    *)
(* request, message and suspended handler go on; the user's cancellation   *)
(* is never forced                                                         *)
(***************************************************************************)
\* a step of the program other than the user's cancellation
Progress == Next /\ userCancelled' = userCancelled

\* ENABLED <<Progress>>_vars written out: a request, a message or a handler
\* has a step to take
ProgressEnabled ==
    \/ coPc = "idle" /\ callerPc = "waiting"
    \/ coPc \in {"check", "sendEnd"} /\ ~AwaitingSend(Coordinator)
    \/ coPc = "race" /\ tasks[coIdx].pc \in Unsettled \cup {"resolved", "rejected"}
    \/ \E k \in BatchIndexes :
          \/ tasks[k].pc \in Unsettled \ {"fallback"}
          \/ tasks[k].pc = "fallback" /\ ~AwaitingSend(k)
    \/ cancelPc = "sent" /\ coPc # "idle"
    \/ channel # <<>>
    \/ callerPc = "idle"
    \/ callerPc = "waiting" /\ coPc # "idle"
    \/ callerPc = "showing"
    \/ handlers # <<>>
    \/ reqStatus = "streaming"

\* weak fairness of Progress, WF_vars(Progress), with its enabling condition
\* written out
FairProgress == []<>(~ProgressEnabled) \/ []<><<Progress>>_vars

SpecLive == Init /\ [][Next]_vars /\ FairProgress

\* the success updates the coordinator has sent for whole batches
BatchUpdates(msgs) == {e \in msgs : e.by = "batch" /\ e.msg.success}

StreamEnds(msgs) == {e \in msgs : e.msg.type = "end"}

\* every batch has been streamed by the coordinator
AllBatchesSucceeded == coPc = "done"

\* one success update per batch with as many translated as original texts,
\* and a single stream end, which is a successful one
AllUpdatesEmitted ==
    /\ \A k \in BatchIndexes : \E e \in BatchUpdates(emitted) :
          /\ e.batch = k /\ e.msg.batchIndex = k
          /\ Len(e.msg.data) = Len(e.msg.originalData)
          /\ e.msg.originalData = Batch(k)
    /\ Cardinality(StreamEnds(emitted)) = 1
    /\ \A e \in StreamEnds(emitted) : e.msg.success

\* the update of batch k is sent after those of the batches before it and
\* before the stream end; the successful stream end is sent after all of them
EmitOrderStep ==
    \A e \in emitted' \ emitted :
        /\ e \in BatchUpdates(emitted') =>
              /\ \A k \in 0..(e.batch - 1) :
                    \E f \in BatchUpdates(emitted) : f.batch = k
              /\ StreamEnds(emitted) = {}
        /\ (e.msg.type = "end" /\ e.msg.success) =>
              \A k \in BatchIndexes : \E f \in BatchUpdates(emitted) : f.batch = k

\* the request is completed and every holder shows the text of its segment
\* in the final reassembled translation
CompletedAndApplied ==
    /\ reqStatus = "completed"
    /\ \A i \in 1..Len(jobTexts) :
          holders[i].shown = StreamEndTranslations(translatedSegments, jobTexts)[i][2]

SuccessUpdateArrives ==
    /\ channel # <<>>
    /\ Head(channel).msg.type = "update"
    /\ Head(channel).msg.success

SuccessEndArrives ==
    /\ channel # <<>>
    /\ Head(channel).msg.type = "end"
    /\ Head(channel).msg.success

FinalHandlers == {j \in 1..Len(handlers) : handlers[j].kind = "applyFinal"}

\* what a timed-out request does step by step: the timer leaves the stored
\* segments and the holders alone; an update handled in state timeout is
\* stored, not dropped; a successful stream end handled in state timeout
\* starts the final application; the final application ends in completed
TimedOutJobStep ==
    /\ (reqStatus = "streaming" /\ reqStatus' = "timeout") =>
          /\ translatedSegments' = translatedSegments
          /\ holders' = holders
    /\ (reqStatus = "timeout" /\ SuccessUpdateArrives /\ channel' = Tail(channel)) =>
          /\ dropLog' = dropLog
          /\ translatedSegments' =
                 StreamDataLoop(1, Head(channel).msg, jobTexts,
                                translatedSegments, <<>>).segments
    /\ (reqStatus = "timeout" /\ SuccessEndArrives /\ ~reqHasErrors
           /\ channel' = Tail(channel)) =>
          Cardinality(FinalHandlers') = Cardinality(FinalHandlers) + 1
    /\ (reqStatus = "timeout" /\ Cardinality(FinalHandlers') < Cardinality(FinalHandlers)) =>
          reqStatus' = "completed"

MaxRawLen == 6

MaxPairLen == 3

SegAlphabet == {"a", "b", LineBreak}

\* keys of originalTextsMap of at most n characters: texts of text nodes,
\* line breaks inside only
RawTexts(n) ==
    { t \in SeqsUpTo(SegAlphabet, n) :
        t # <<>> /\ t[1] # LineBreak /\ t[Len(t)] # LineBreak }

\* a translation that is the text of a JSON array
JsonSample == <<"[", "\"", "T", "\"", "]">>

\* translations of two paragraphs: 2 and 3 line breaks in a row
ParagraphSamples ==
    { <<"T", LineBreak, LineBreak, "T">>, <<"T", LineBreak, LineBreak, LineBreak, "T">> }

\* what translatedSegments may hold for one segment
StoredChoices(expandedTexts, i) ==
    {Absent, expandedTexts[i], Translate(expandedTexts[i])}
    \cup (IF Len(expandedTexts) = 1 THEN {JsonSample} ELSE {})
    \cup (IF Len(expandedTexts) <= 3 THEN ParagraphSamples ELSE {})

RECURSIVE StoredSegments(_, _)
StoredSegments(expandedTexts, n) ==
    IF n = 0 THEN {<<>>}
    ELSE {Append(s, x) : s \in StoredSegments(expandedTexts, n - 1),
                         x \in StoredChoices(expandedTexts, n)}

\* the backend's reply to the payload, one item per item sent: every text
\* unchanged, or every text that is not empty translated
DirectReplies(payload) ==
    { [i \in 1..Len(payload) |-> [text |-> payload[i].text]],
      [i \in 1..Len(payload) |->
          [text |-> IF payload[i].text = <<>> THEN <<>> ELSE Translate(payload[i].text)]] }

InitSeg ==
    /\ PlannerAtRest
    /\ JobAtRest
    /\ ApplyAtRest
    /\ PageAtRest
    /\ RegistryAtRest
    /\ prBatch = <<>>
    /\ prReply = <<>>
    /\ prResult = <<>>
    /\ sgTexts \in {<<t>> : t \in RawTexts(MaxRawLen)}
                   \cup {p \in {<<t, u>> : t \in RawTexts(MaxPairLen),
                                              u \in RawTexts(MaxPairLen)} :
                            p[1] # p[2]}
    /\ sgSegments \in LET expandedTexts == expandTextsForTranslation(sgTexts).expandedTexts
                      IN  StoredSegments(expandedTexts, Len(expandedTexts))
    /\ sgPc = "new"
    /\ sgPayload = <<>>
    /\ sgReply = <<>>
    /\ sgFinal = <<>>
    /\ sgResult = <<>>

\* processSelectedElement: the payload is built and sent
SendPayload ==
    /\ sgPc = "new"
    /\ sgPayload' = jsonPayload(filteredExpandedTexts(
                                    expandTextsForTranslation(sgTexts).expandedTexts))
    /\ sgPc' = "sent"
    /\ UNCHANGED <<sgTexts, sgSegments, sgReply, sgFinal, sgResult>>

\* _handleStreamEndSuccess
StreamEndSuccess ==
    /\ sgPc = "sent"
    /\ LET expanded == expandTextsForTranslation(sgTexts)
       IN  sgFinal' = finalTranslatedData(sgSegments, expanded.expandedTexts,
                                          filteredExpandedTexts(expanded.expandedTexts),
                                          expanded.originMapping)
    /\ sgResult' = StreamEndTranslations(sgSegments, sgTexts)
    /\ sgPc' = "stream"
    /\ UNCHANGED <<sgTexts, sgSegments, sgPayload, sgReply>>

\* _processNonStreamingSuccess
NonStreamingSuccess ==
    /\ sgPc = "sent"
    /\ \E translatedData \in DirectReplies(sgPayload) :
          /\ sgReply' = translatedData
          /\ LET expanded == expandTextsForTranslation(sgTexts)
             IN  sgFinal' = NonStreamingLoop(1, 1, translatedData, expanded.expandedTexts,
                                             filteredExpandedTexts(expanded.expandedTexts),
                                             expanded.originMapping)
          /\ sgResult' = NonStreamingTranslations(translatedData, sgTexts)
    /\ sgPc' = "direct"
    /\ UNCHANGED <<sgTexts, sgSegments, sgPayload>>

SegFrame ==
    UNCHANGED <<bpVars, jobVars, bgVars, channel, cancelPc, contentVars, apVars,
                parseVars, registryVars, pageVars>>

NextSeg ==
    \/ SendPayload /\ SegFrame
    \/ StreamEndSuccess /\ SegFrame
    \/ NonStreamingSuccess /\ SegFrame

SpecSeg == InitSeg /\ [][NextSeg]_vars

\* the longest run of consecutive line breaks in t
RECURSIVE LongestLineBreakRun(_)
LongestLineBreakRun(t) ==
    IF t = <<>> THEN 0
    ELSE LET run == LeadingLineBreaks(t)
         IN  IF run = 0 THEN LongestLineBreakRun(Tail(t))
             ELSE Max(run, LongestLineBreakRun(SubSeq(t, run + 1, Len(t))))

\* n blank lines in a row are n + 1 line breaks in a row
LongestBlankLineRun(t) == Max(LongestLineBreakRun(t) - 1, 0)

\* every segment came back as it was sent
IdentityTranslated ==
    \/ /\ sgPc = "stream"
       /\ LET expanded == expandTextsForTranslation(sgTexts)
          IN  \A i \in 1..Len(expanded.expandedTexts) :
                 ~expanded.originMapping[i].isEmptyLine
                     => sgSegments[i] = expanded.expandedTexts[i]
    \/ /\ sgPc = "direct"
       /\ sgReply = [i \in 1..Len(sgPayload) |-> [text |-> sgPayload[i].text]]

HelloWorldShape == <<"a", LineBreak, LineBreak, "b">>

\* C13: when every segment is translated to itself, the reassembled text of
\* every unit without a run of 3 or more blank lines is the unit's raw text;
\* a text of the shape "Hello\n\nWorld" expands into 3 segments, the middle
\* one the placeholder, all of originalIndex 0, and reassembles to itself
C13_RoundTripIdentity ==
    /\ IdentityTranslated =>
           \A k \in 1..Len(sgTexts) :
              LongestBlankLineRun(sgTexts[k]) < 3
                  => MapGet(sgResult, sgTexts[k]) = sgTexts[k]
    /\ sgTexts = <<HelloWorldShape>> =>
           LET expanded == expandTextsForTranslation(sgTexts)
           IN  /\ expanded.expandedTexts = <<(<<"a">>), EmptyLinePlaceholder, (<<"b">>)>>
               /\ \A i \in 1..3 : expanded.originMapping[i].originalIndex = 0
               /\ IdentityTranslated => sgResult = <<(<<HelloWorldShape, HelloWorldShape>>)>>

\* one string per unit, under the unit's raw text
OneStringPerUnit ==
    /\ Len(sgResult) = Len(sgTexts)
    /\ \A k \in 1..Len(sgTexts) : sgResult[k][1] = sgTexts[k]

\* what segment i contributes by the rule of the Reassembler
EmittedByRule(i) ==
    LET expanded == expandTextsForTranslation(sgTexts)
    IN  IF expanded.originMapping[i].isEmptyLine THEN <<LineBreak>>
        ELSE IF sgSegments[i] # Absent THEN sgSegments[i]
        ELSE expanded.expandedTexts[i]

\* the stored translation of a request's only segment is the text of a JSON
\* array
LoneJsonTranslation == Len(sgSegments) = 1 /\ sgSegments[1] = JsonSample

JoinedUnit(k) ==
    JoinLines(SegmentsOfUnit(sgFinal, expandTextsForTranslation(sgTexts).originMapping,
                             k - 1, 1))

\* t as its characters and the lengths of its runs of line breaks, a run
\* longer than cap counted as cap
RECURSIVE RunProfile(_, _)
RunProfile(t, cap) ==
    IF t = <<>> THEN <<>>
    ELSE LET run == LeadingLineBreaks(t)
         IN  IF run = 0 THEN <<Head(t)>> \o RunProfile(Tail(t), cap)
             ELSE <<Min(run, cap)>> \o RunProfile(SubSeq(t, run + 1, Len(t)), cap)

Reassembled == sgPc \in {"stream", "direct"}

\* C15: no reassembled text has 3 or more line breaks in a row: against the
\* rejoined text every run of 3 or more has become a run of 2, a run of 1 or
\* 2 and every other character is as it was, and the normalisation applied
\* to its own result changes nothing
C15_LineBreaksCollapsed ==
    Reassembled =>
        \A k \in 1..Len(sgTexts) :
           LET out == sgResult[k][2]
           IN  /\ LongestLineBreakRun(out) < 3
               /\ RunProfile(out, Len(out)) = RunProfile(JoinedUnit(k), 2)
               /\ CollapseLineBreaks(out) = out

\* t has a run of exactly 2 line breaks
HasRunOfTwo(t) ==
    \E i \in 2..(Len(t) - 2) :
       /\ t[i] = LineBreak /\ t[i + 1] = LineBreak
       /\ t[i - 1] # LineBreak /\ t[i + 2] # LineBreak

\* a unit rejoined with a run of 3 or more line breaks and with a run of 2
C15_Witness ==
    /\ Reassembled
    /\ \E k \in 1..Len(sgTexts) :
          /\ LongestLineBreakRun(JoinedUnit(k)) >= 3
          /\ HasRunOfTwo(JoinedUnit(k))
          /\ LongestLineBreakRun(sgResult[k][2]) = 2
          /\ Len(sgResult[k][2]) < Len(JoinedUnit(k))

(***************************************************************************)
(* SpecParse: _parseBatchResult applied to one reply                       *)
(***************************************************************************)
MaxParseBatch == 3

\* the item a backend returns under an id: the translation of the segment
\* of that id, a text of its own under an id no segment has
ReplyItem(batch, id) ==
    [id |-> id, text |-> IF id < Len(batch) THEN Translate(batch[id + 1]) ELSE GarbageLine]

\* arrays of objects with distinct ids in any order: items missing, or one
\* item too many
ObjectReplies(batch) ==
    { [form |-> "objects", items |-> [i \in 1..Len(ids) |-> ReplyItem(batch, ids[i])],
       lines |-> <<GarbageLine>>] :
        ids \in { q \in SeqsUpTo(0..Len(batch), Len(batch) + 1) :
                    /\ q # <<>>
                    /\ \A i, j \in 1..Len(q) : i # j => q[i] # q[j] } }

InitParse ==
    /\ PlannerAtRest
    /\ JobAtRest
    /\ ApplyAtRest
    /\ PageAtRest
    /\ RegistryAtRest
    /\ sgTexts = <<>>
    /\ sgSegments = <<>>
    /\ sgPc = "new"
    /\ sgPayload = <<>>
    /\ sgReply = <<>>
    /\ sgFinal = <<>>
    /\ sgResult = <<>>
    /\ \E n \in 1..MaxParseBatch : prBatch = [i \in 1..n |-> SegmentText(i)]
    /\ prReply \in ObjectReplies(prBatch) \cup BackendReplies(prBatch)
    /\ prResult = <<>>

\* _translateBatch hands the reply to _parseBatchResult
ParseReply ==
    /\ prResult = <<>>
    /\ prResult' = <<_parseBatchResult(prReply, Len(prBatch), prBatch)>>
    /\ UNCHANGED <<prBatch, prReply>>

NextParse ==
    ParseReply
    /\ UNCHANGED <<bpVars, jobVars, bgVars, channel, cancelPc, contentVars, apVars,
                   segVars, registryVars, pageVars>>

SpecParse == InitParse /\ [][NextParse]_vars

\* the reply is an array of objects of another length than the batch
CountDiffers == prReply.form = "objects" /\ Len(prReply.items) # Len(prBatch)

\* C17: of an array of objects whose length is not the batch's, the result
\* has one entry per segment: the text of the returned item of the segment's
\* id, the segment's original text where no item has that id
C17_PositionalRecovery ==
    (prResult # <<>> /\ CountDiffers) =>
        /\ prResult[1].ok
        /\ Len(prResult[1].texts) = Len(prBatch)
        /\ \A i \in 1..Len(prBatch) :
              prResult[1].texts[i] =
                 IF \E j \in 1..Len(prReply.items) : prReply.items[j].id = i - 1
                 THEN ReplyItem(prBatch, i - 1).text
                 ELSE prBatch[i]

\* the batches the provider makes of the payload's texts
PayloadBatches ==
    _createOptimalBatches([i \in 1..Len(sgPayload) |-> sgPayload[i].text],
                          JobBatchingConfig(2))

\* C16: no payload and no batch made of it holds an empty string: nothing is
\* submitted for a blank line
C16_NoEmptySegmentSubmitted ==
    sgPc # "new" =>
        /\ \A i \in 1..Len(sgPayload) : sgPayload[i].text # <<>>
        /\ \A b \in 1..Len(PayloadBatches) :
              \A j \in 1..Len(PayloadBatches[b]) : PayloadBatches[b][j] # <<>>

(***************************************************************************)
(* SpecPlan: the batch planner on jobs of up to MaxPlanSegments segments   *)
(* of given lengths                                                        *)
(***************************************************************************)
MaxPlanSegments == 30

\* a text of one word of len characters: complexity 1 at length 1, 31 at
\* length 60, 40 at length 79
UniformText(len) == [i \in 1..len |-> "a"]

PlanLengths == {1, 60, 79}

\* jobs of n segments, of length lenA at the odd places and lenB at the even
PlanTexts ==
    { [i \in 1..n |-> UniformText(IF i % 2 = 1 THEN lenA ELSE lenB)] :
        n \in 1..MaxPlanSegments, lenA \in PlanLengths, lenB \in PlanLengths }

\* the smart strategy with sizes set and unset, and a character budget
PlanConfigs ==
    [translateMode : {"selection"}, strategy : {"smart"},
     optimalSize : {0, 10, 25}, maxComplexity : {0, 10, 30, 400},
     maxBatchSizeChars : {0}, balancedBatching : {FALSE}]
    \cup
    [translateMode : {"select_element"}, strategy : {"smart"},
     optimalSize : {0}, maxComplexity : {0},
     maxBatchSizeChars : {100}, balancedBatching : BOOLEAN]

InitPlan ==
    /\ bpTexts \in PlanTexts
    /\ bpConfig \in PlanConfigs
    /\ bpBatches = <<>>
    /\ bpPlanned = FALSE
    /\ JobAtRest
    /\ ApplyAtRest
    /\ PageAtRest
    /\ SegAtRest

SpecPlan == InitPlan /\ [][NextBatch]_vars

\* 3 segments of length 60 under a character budget of 100
ThreeSixties ==
    /\ bpTexts = [i \in 1..3 |-> UniformText(60)]
    /\ bpConfig.maxBatchSizeChars = 100

BatchChars(b) == SumLen(bpBatches[b])

\* the statement of C18 as it stands: exactly 2 batches, none over 100
C18_TwoBatchesAsStated ==
    (bpPlanned /\ ThreeSixties) =>
        /\ Len(bpBatches) = 2
        /\ \A b \in 1..Len(bpBatches) : BatchChars(b) <= 100

\* C18: of 3 segments of length 60 and a character budget of 100 the
\* character planner makes exactly 3 batches of one segment each, none over
\* 100 characters, with balancing and without
C18_CharacterBudget ==
    (bpPlanned /\ ThreeSixties) =>
        /\ Len(bpBatches) = 3
        /\ \A b \in 1..Len(bpBatches) : Len(bpBatches[b]) = 1 /\ BatchChars(b) <= 100

C18_Witness ==
    /\ bpPlanned
    /\ ThreeSixties
    /\ bpConfig.balancedBatching
    /\ Len(bpBatches) = 3
    /\ BatchChars(1) = 60

SmartPlanned == bpPlanned /\ bpConfig.maxBatchSizeChars = 0

\* optimalSize and maxComplexity as _createOptimalBatches passes them
PlanOptimalSize ==
    IF bpConfig.optimalSize = 0 THEN DefaultOptimalBatchSize ELSE bpConfig.optimalSize

PlanMaxComplexity ==
    IF bpConfig.maxComplexity = 0 THEN DefaultMaxComplexity ELSE bpConfig.maxComplexity

\* 20 segments of complexity 1 each
TwentyNegligible == bpTexts = [i \in 1..20 |-> UniformText(1)]

\* the statement of C19 as it stands: one batch whenever there are at most
\* 20 segments or the total complexity is below 300
C19_SingleBatchAsStated ==
    (SmartPlanned /\ (Len(bpTexts) <= 20 \/ _getTotalComplexity(bpTexts) < 300)) =>
        bpBatches = <<bpTexts>>

\* C19: the smart planner makes one batch of all segments whenever there are
\* at most min(20, optimalSize) segments or the total complexity is below
\* min(300, maxComplexity); 20 segments of complexity 1 make one batch
\* under every maxComplexity above 20
C19_SingleBatch ==
    /\ (SmartPlanned /\ (\/ Len(bpTexts) <= Min(20, PlanOptimalSize)
                          \/ _getTotalComplexity(bpTexts) < Min(300, PlanMaxComplexity))) =>
           bpBatches = <<bpTexts>>
    /\ (SmartPlanned /\ TwentyNegligible /\ PlanMaxComplexity > 20) =>
           bpBatches = <<bpTexts>>

\* 20 segments of complexity 1, more than optimalSize, in one batch
C19_Witness ==
    /\ SmartPlanned
    /\ TwentyNegligible
    /\ PlanOptimalSize < 20
    /\ _getTotalComplexity(bpTexts) = 20
    /\ bpBatches = <<bpTexts>>

\* 30 segments of complexity 40 each under optimalSize 25, maxComplexity 400
ThirtyForties ==
    /\ bpTexts = [i \in 1..30 |-> UniformText(79)]
    /\ bpConfig.optimalSize = 25
    /\ bpConfig.maxComplexity = 400

\* C20: when the smart planner makes more than one batch, no batch holds more
\* than optimalSize segments and none but a batch of a single segment has a
\* complexity over maxComplexity; 30 segments of complexity 40 under
\* optimalSize 25 and maxComplexity 400 make at least 3 batches
C20_SmartBatchLimits ==
    /\ (SmartPlanned /\ Len(bpBatches) > 1) =>
           \A b \in 1..Len(bpBatches) :
              /\ Len(bpBatches[b]) <= PlanOptimalSize
              /\ \/ _getTotalComplexity(bpBatches[b]) <= PlanMaxComplexity
                 \/ Len(bpBatches[b]) = 1
    /\ (SmartPlanned /\ ThirtyForties) => Len(bpBatches) >= 3

\* the 30 segments in 3 batches of 10, each of complexity 400
C20_Witness ==
    /\ SmartPlanned
    /\ ThirtyForties
    /\ Len(bpBatches) = 3
    /\ \A b \in 1..3 :
          Len(bpBatches[b]) = 10 /\ _getTotalComplexity(bpBatches[b]) = 400

\* a segment over maxComplexity in a batch of its own, among batches within
\* the limit
C20_OversizedAlone ==
    /\ SmartPlanned
    /\ Len(bpBatches) > 1
    /\ \E b \in 1..Len(bpBatches) :
          Len(bpBatches[b]) = 1 /\ _getTotalComplexity(bpBatches[b]) > PlanMaxComplexity
    /\ \E b \in 1..Len(bpBatches) :
          _getTotalComplexity(bpBatches[b]) <= PlanMaxComplexity

\* C21: no batch the planner returns is empty, whatever the strategy and the
\* segment sequence, the empty sequence and zero-length segments included
C21_NoEmptyBatch ==
    bpPlanned => \A b \in 1..Len(bpBatches) : bpBatches[b] # <<>>

CharacterPlanned ==
    bpPlanned /\ bpConfig.translateMode = "select_element"
              /\ bpConfig.maxBatchSizeChars # 0

\* C22: the character planner makes a single batch of a job that fits the
\* budget; of any other job every batch of two or more segments is within
\* the budget and every segment over the budget is alone in its batch
C22_CharacterBatches ==
    CharacterPlanned =>
        IF SumLen(bpTexts) <= bpConfig.maxBatchSizeChars
        THEN bpBatches = <<bpTexts>>
        ELSE \A b \in 1..Len(bpBatches) :
                /\ Len(bpBatches[b]) >= 2 =>
                       SumLen(bpBatches[b]) <= bpConfig.maxBatchSizeChars
                /\ \A j \in 1..Len(bpBatches[b]) :
                       Len(bpBatches[b][j]) > bpConfig.maxBatchSizeChars =>
                           Len(bpBatches[b]) = 1

\* a job over the budget with a segment over the budget alone in its batch
\* and another batch of two segments
C22_Witness ==
    /\ CharacterPlanned
    /\ SumLen(bpTexts) > bpConfig.maxBatchSizeChars
    /\ \E b \in 1..Len(bpBatches) :
          Len(bpBatches[b]) = 1 /\ Len(bpBatches[b][1]) > bpConfig.maxBatchSizeChars
    /\ \E b \in 1..Len(bpBatches) : Len(bpBatches[b]) = 2

\* the replacement criteria as the specification words them: at least 110% of
\* the length, at least 120% of the words, or at least 110% of the distinct
\* characters of the translation the holder shows
MeetsStatedCriteria(currentTranslation, finalTrimmed) ==
    \/ 10 * Len(finalTrimmed) >= 11 * Len(currentTranslation)
    \/ 10 * Len(SplitWhitespace(finalTrimmed))
           >= 12 * Len(SplitWhitespace(currentTranslation))
    \/ 10 * Cardinality({ToLowerCase(finalTrimmed)[i] : i \in 1..Len(finalTrimmed)})
           >= 11 * Cardinality({ToLowerCase(currentTranslation)[i] :
                                    i \in 1..Len(currentTranslation)})

NonFinalReplaceStep ==
    \A i \in 1..Len(holders) :
        LET last == apApplied'[Len(apApplied')]
            currentTranslation == Trim(holders[i].shown)
        IN  (/\ Len(apApplied') = Len(apApplied) + 1
             /\ ~last.final
             /\ ShowsNonFinalResult(i)
             /\ MapHas(last.map, holders[i].text)
             /\ MapGet(last.map, holders[i].text) # currentTranslation
             /\ MapGet(last.map, holders[i].text) # Trim(holders[i].text))
            => Trim(holders'[i].shown) =
                 IF MeetsStatedCriteria(currentTranslation,
                                        MapGet(last.map, holders[i].text))
                 THEN MapGet(last.map, holders[i].text)
                 ELSE currentTranslation

\* C23: authority policy for non-final results.  A non-final result applied to
\* a holder that already shows a non-final translation with a different text
\* replaces it exactly when it has at least 110% of its length, 120% of its
\* words or 110% of its distinct characters; otherwise the holder keeps what it
\* shows ("He" shown, then the non-final "Hello": "Hello").
C23_NonFinalReplacement == [][NonFinalReplaceStep]_vars

HelloKey == <<"H", "e", "l", "l", "o">>

PaddedHello == <<" ">> \o HelloKey \o <<" ">>

\* an application step that finds the attached holder " Hello " and a
\* translation keyed "Hello", none keyed " Hello ", whose text is not "Hello"
PaddedHelloStep(i) ==
    LET last == apApplied'[Len(apApplied')]
    IN  /\ Len(apApplied') = Len(apApplied) + 1
        /\ holders[i].text = PaddedHello
        /\ holders[i].attached
        /\ MapHas(last.map, HelloKey)
        /\ ~MapHas(last.map, PaddedHello)
        /\ MapGet(last.map, HelloKey) # HelloKey

TrimmedTierAsStatedStep ==
    \A i \in 1..Len(holders) :
        LET last == apApplied'[Len(apApplied')]
        IN  PaddedHelloStep(i) =>
              /\ Trim(holders'[i].shown) = MapGet(last.map, HelloKey)
              /\ last.matchTypes[i] \in {"trimmed", "lookup_trimmed",
                                         "exact_trimmed_streaming"}

\* C24 as stated: the holder " Hello " is bound to the translation keyed
\* "Hello", and the lookup that produces the match is the trimmed one
C24_TrimmedTierAsStated == [][TrimmedTierAsStatedStep]_vars

TrimmedTierStep ==
    \A i \in 1..Len(holders) :
        LET last == apApplied'[Len(apApplied')]
        IN  PaddedHelloStep(i) =>
              /\ Trim(holders'[i].shown) = MapGet(last.map, HelloKey)
              /\ last.matchTypes[i] =
                     CASE last.mode = "streaming" -> "exact_trimmed_streaming"
                       [] last.mode = "non-final" -> "lookup_exact"
                       [] OTHER -> "exact"

\* C24: the holder " Hello " is bound to the translation keyed "Hello" by an
\* exact lookup, never by a fuzzy one: the trimmed lookup of a streaming
\* application, and in the other applications the exact lookup of the table
\* that lists " Hello " among the padded variations of the key "Hello"
C24_TrimmedTier == [][TrimmedTierStep]_vars

C24_Witness ==
    \E i \in 1..Len(holders) : \E n \in 1..Len(apApplied) :
        /\ holders[i].text = PaddedHello
        /\ apApplied[n].mode = "final"
        /\ MapHas(apApplied[n].map, HelloKey)
        /\ ~MapHas(apApplied[n].map, PaddedHello)
        /\ apApplied[n].matchTypes[i] = "exact"
        /\ Trim(holders[i].shown) = MapGet(apApplied[n].map, HelloKey)
        /\ holders[i].shown # holders[i].text

\* the translation the tiers 1 to 4 of the matching engine bind to a text, in
\* their order: the key equal to the text, to its trimmed form, to its form
\* with whitespace runs normalized, to its form with whitespace removed (the
\* forms of the holder's text; the keys are taken as they are); the first hit
\* wins, <<>> when no tier hits
RECURSIVE FirstKeyed(_, _, _)
FirstKeyed(map, i, wanted) ==
    IF i > Len(map) THEN <<>>
    ELSE IF wanted[i] THEN map[i][2]
    ELSE FirstKeyed(map, i + 1, wanted)

TierMatch(map, text) ==
    LET exact == FirstKeyed(map, 1, [i \in 1..Len(map) |-> map[i][1] = text])
        trimmed == FirstKeyed(map, 1, [i \in 1..Len(map) |-> map[i][1] = Trim(text)])
        normalized == FirstKeyed(map, 1,
                       [i \in 1..Len(map) |->
                           map[i][1] = Trim(CollapseWhitespace(text))])
        noWhitespace == FirstKeyed(map, 1,
                       [i \in 1..Len(map) |-> map[i][1] = RemoveWhitespace(text)])
    IN  IF exact # <<>> THEN exact
        ELSE IF trimmed # <<>> THEN trimmed
        ELSE IF normalized # <<>> THEN normalized
        ELSE noWhitespace

TierOrderStep ==
    \A i \in 1..Len(holders) :
        LET last == apApplied'[Len(apApplied')]
            bound == TierMatch(last.map, holders[i].text)
        IN  (/\ Len(apApplied') = Len(apApplied) + 1
             /\ holders[i].attached
             /\ ~IsBlank(holders[i].text)
             /\ bound # <<>>
             /\ Trim(bound) # Trim(holders[i].text))
            => /\ Trim(holders'[i].shown) = Trim(bound)
               /\ last.matchTypes[i] \notin {"fallback", "fuzzy_streaming", "none"}

RECURSIVE BestFallbackScore(_, _, _, _)
BestFallbackScore(lookup, i, text, bestScore) ==
    IF i > Len(lookup) THEN bestScore
    ELSE BestFallbackScore(lookup, i + 1, text,
                           ScoreMax(FallbackScore(text, lookup[i][1]), bestScore))

\* the table has no entry for the text in its exact, trimmed, normalized or
\* whitespace-removed form, and the best candidate of the last-resort loop
\* scores below 20 percent
BelowThreshold(lookup, text) ==
    /\ ~MapHas(lookup, text)
    /\ ~MapHas(lookup, Trim(text))
    /\ ~MapHas(lookup, Trim(CollapseWhitespace(text)))
    /\ ~MapHas(lookup, RemoveWhitespace(text))
    /\ ScoreGreater(<<20, 1>>,
                    BestFallbackScore(lookup, 1, Trim(text), <<0, 1>>))

UnmatchedStep ==
    \A i \in 1..Len(holders) :
        LET last == apApplied'[Len(apApplied')]
        IN  (/\ Len(apApplied') = Len(apApplied) + 1
             /\ last.mode # "streaming"
             /\ holders[i].attached
             /\ ~IsBlank(holders[i].text)
             /\ BelowThreshold(BuildLookup(last.map, <<>>), holders[i].text))
            => /\ holders'[i] = holders[i]
               /\ i \in last.unmatched

\* C26: unmatched holders.  A holder that applyTranslationsToNodes matches in
\* none of the tiers 1 to 4 and whose best fuzzy candidate scores below the
\* minimum threshold (20%, the lower end of the range the specification gives)
\* is left as it is and is recorded in the list of unmatched nodes
C26_UnmatchedLeftAlone == [][UnmatchedStep]_vars

(***************************************************************************)
(* SpecJobs: two requests of one content script.  Each has its entry in    *)
(* the registry under its messageId; window.isTranslationInProgress and    *)
(* the error reports are shared.  bg of an entry is the background's       *)
(* stream for that messageId:                                              *)
(*   "idle" not started, "running", "ended" stream end sent after the last *)
(*   batch, "failed" error update and error stream end sent                *)
(* peers is history: the requests that were active when this one started  *)
(***************************************************************************)
JobIds == {1, 2}

JobsBatches == 2

NoRequest ==
    [status |-> "none", hasErrors |-> FALSE, userCancelled |-> FALSE,
     segments |-> [i \in 1..JobsBatches |-> Absent], applied |-> {},
     sent |-> 0, bg |-> "idle", peers |-> {}]

\* requestManager.cancelRequest(messageId) cancelling every request
cancelEveryRequest(requests, messageId) ==
    [m \in DOMAIN requests |->
        [requests[m] EXCEPT !.status = cancelRequest(@), !.userCancelled = TRUE]]

\* requestManager.cancelRequest(messageId)
cancelRequestById(requests, messageId) ==
    [requests EXCEPT ![messageId].status = cancelRequest(@),
                     ![messageId].userCancelled = TRUE]

InitJobs ==
    /\ PlannerAtRest
    /\ JobAtRest
    /\ ApplyAtRest
    /\ PageAtRest
    /\ prBatch = <<>>
    /\ prReply = <<>>
    /\ prResult = <<>>
    /\ sgTexts = <<>>
    /\ sgSegments = <<>>
    /\ sgPc = "new"
    /\ sgPayload = <<>>
    /\ sgReply = <<>>
    /\ sgFinal = <<>>
    /\ sgResult = <<>>
    /\ registry = [m \in JobIds |-> NoRequest]

\* a click on an element while no translation is marked as in progress:
\* processSelectedElement registers the request and the background starts
JobsStart(m) ==
    /\ registry[m].bg = "idle"
    /\ ~isTranslationInProgress
    /\ isTranslationInProgress' = TRUE
    /\ registry' = [registry EXCEPT
                       ![m].status = updateRequestStatus(createStreamingRequest,
                                                         "streaming"),
                       ![m].bg = "running",
                       ![m].peers = {o \in JobIds \ {m} :
                                       hasActiveRequests(registry[o].status)}]
    /\ UNCHANGED shownErrors

\* revertTranslations of the SelectElementManager clears the flag, whatever
\* is in flight
JobsRevert ==
    /\ isTranslationInProgress
    /\ isTranslationInProgress' = FALSE
    /\ UNCHANGED <<registry, shownErrors>>

\* the background streams the next batch of m: processStreamUpdate with
\* success, _processStreamTranslationData and the streaming application
JobsStreamUpdate(m) ==
    LET r == registry[m]
        k == r.sent + 1
    IN  /\ r.bg = "running"
        /\ r.sent < JobsBatches
        /\ IF StreamUpdateDropped(r.status)
           THEN /\ registry' = [registry EXCEPT ![m].sent = k]
                /\ UNCHANGED isTranslationInProgress
           ELSE /\ registry' = [registry EXCEPT
                                   ![m].sent = k,
                                   ![m].segments[k] = Translate(SegmentText(k)),
                                   ![m].applied = @ \cup {k}]
                /\ isTranslationInProgress' = TRUE
        /\ UNCHANGED shownErrors

\* processStreamEnd with an error for the request r of an entry, after its
\* entry checks: _handleStreamEndError
StreamEndError(r, retrySuccess) ==
    IF retrySuccess THEN r
    ELSE [r EXCEPT !.status = updateRequestStatus(@, "error")]

\* a batch of m fails in the background: processStreamUpdate with success:
\* false, which runs processStreamEnd itself, then processStreamEnd for the
\* error stream end the background sends after it
JobsStreamFailure(m) ==
    LET r == registry[m]
        marked == [r EXCEPT !.hasErrors = TRUE, !.bg = "failed"]
        closed == [r EXCEPT !.bg = "failed"]
    IN  /\ r.bg = "running"
        /\ IF r.status = "none" \/ r.status \in {"completed", "error"}
           THEN /\ registry' = [registry EXCEPT ![m] = closed]
                /\ UNCHANGED <<isTranslationInProgress, shownErrors>>
           ELSE IF r.status = "cancelled"
           THEN \* the update is ignored, the stream end removes the request
                /\ registry' = [registry EXCEPT ![m] = [closed EXCEPT !.status = removeRequest]]
                /\ UNCHANGED <<isTranslationInProgress, shownErrors>>
           ELSE /\ isTranslationInProgress' = FALSE
                /\ \E retrySuccess \in BOOLEAN : \E retryAgain \in BOOLEAN :
                      LET first == StreamEndError(marked, retrySuccess)
                          ignored == first.status \in {"completed", "error"}
                      IN  /\ registry' = [registry EXCEPT
                                 ![m] = IF ignored THEN first
                                        ELSE StreamEndError(first, retryAgain)]
                          /\ shownErrors' =
                                shownErrors
                                + (IF retrySuccess THEN 0 ELSE 1)
                                + (IF ignored \/ retryAgain THEN 0 ELSE 1)

\* the background ends the stream of m after its last batch: processStreamEnd
\* with _handleStreamEndSuccess or, for a request with errors,
\* _handleStreamEndError
JobsStreamEnd(m) ==
    LET r == registry[m]
        closed == [r EXCEPT !.bg = "ended"]
    IN  /\ r.bg = "running"
        /\ r.sent = JobsBatches
        /\ IF r.status = "none" \/ r.status \in {"completed", "error"}
           THEN /\ registry' = [registry EXCEPT ![m] = closed]
                /\ UNCHANGED <<isTranslationInProgress, shownErrors>>
           ELSE IF r.status = "cancelled"
           THEN /\ registry' = [registry EXCEPT ![m] = [closed EXCEPT !.status = removeRequest]]
                /\ UNCHANGED <<isTranslationInProgress, shownErrors>>
           ELSE IF r.hasErrors
           THEN /\ isTranslationInProgress' = FALSE
                /\ \E retrySuccess \in BOOLEAN :
                      /\ registry' = [registry EXCEPT
                                         ![m] = StreamEndError(closed, retrySuccess)]
                      /\ shownErrors' = IF retrySuccess THEN shownErrors
                                        ELSE shownErrors + 1
           ELSE /\ isTranslationInProgress' = FALSE
                /\ registry' = [registry EXCEPT
                                   ![m] = [closed EXCEPT
                                             !.status = updateRequestStatus(@, "completed"),
                                             !.applied = {i \in 1..JobsBatches :
                                                            r.segments[i] # Absent}]]
                /\ UNCHANGED shownErrors

\* cancelTranslation(messageId): the request is cancelled, the background is
\* told, and the flag is cleared when no request is active any more
cancelTranslation(messageId) ==
    LET cancelled == cancelRequestById(registry, messageId)
    IN  /\ hasActiveRequests(registry[messageId].status)
        /\ registry' = cancelled
        /\ isTranslationInProgress' =
              IF \E m \in JobIds : hasActiveRequests(cancelled[m].status)
              THEN isTranslationInProgress ELSE FALSE
        /\ UNCHANGED shownErrors

JobsFrame ==
    UNCHANGED <<bpVars, jobVars, bgVars, channel, cancelPc, reqStatus,
                reqHasErrors, translatedSegments, userCancelled, holders,
                handlers, callerPc, dropLog, apVars, segVars, parseVars,
                pageVars>>

NextJobs ==
    \/ \E m \in JobIds : JobsStart(m) /\ JobsFrame
    \/ JobsRevert /\ JobsFrame
    \/ \E m \in JobIds : JobsStreamUpdate(m) /\ JobsFrame
    \/ \E m \in JobIds : JobsStreamFailure(m) /\ JobsFrame
    \/ \E m \in JobIds : JobsStreamEnd(m) /\ JobsFrame
    \/ \E m \in JobIds : cancelTranslation(m) /\ JobsFrame

SpecJobs == InitJobs /\ [][NextJobs]_vars

\* the step is a failure or a cancellation of the request m
FailsOrCancels(m) ==
    /\ registry'[m] # registry[m]
    /\ \/ registry'[m].bg = "failed" /\ registry[m].bg = "running"
       \/ registry'[m].status = "cancelled" /\ registry[m].status # "cancelled"

\* the step delivers the next stream update of the request o
NextUpdateOf(o) == registry'[o].sent = registry[o].sent + 1

\* the step delivers the stream end that follows the last batch of o
StreamEndOf(o) == registry[o].bg = "running" /\ registry'[o].bg = "ended"

JobIsolationStep ==
    \A m \in JobIds : \A o \in JobIds \ {m} :
        /\ FailsOrCancels(m) => registry'[o] = registry[o]
        /\ (registry[o].status = "streaming" /\ NextUpdateOf(o)) =>
              /\ registry'[o].segments[registry'[o].sent]
                    = Translate(SegmentText(registry'[o].sent))
              /\ registry'[o].sent \in registry'[o].applied
              /\ registry'[o].status = "streaming"
        /\ (registry[o].status = "streaming" /\ ~registry[o].hasErrors
              /\ StreamEndOf(o)) =>
              /\ registry'[o].status = "completed"
              /\ registry'[o].segments = registry[o].segments
              /\ registry'[o].applied = 1..JobsBatches

CancelledStep ==
    userCancelled =>
        /\ shownErrors' = shownErrors
        /\ holders' = holders
        /\ translatedSegments' = translatedSegments
        /\ reqHasErrors' = reqHasErrors
        /\ reqStatus' \in {reqStatus, removeRequest}

\* C28: user cancellation.  Once the user has cancelled the job,
\* showErrorToUser is never called for it and nothing further is processed for
\* it, also when the cancellation interrupts a batch in flight and the
\* coordinator emits an error update and an error stream end
C28_CancelledJobSilent == [][CancelledStep]_vars

(***************************************************************************)
(* C29: the extension context is found invalid                             *)
(***************************************************************************)
\* a step in which processSelectedElement leaves through a probe of the
\* extension context: it has not been called or its request has not reached
\* the background, and it stops waiting
ProbeReportsInvalid ==
    /\ coPc = "idle"
    /\ callerPc \in {"idle", "waiting"}
    /\ callerPc' \notin {"idle", "waiting"}

\* nothing has reached the background or the provider, no error has been
\* shown and the request is not in error
AbortedQuietly ==
    /\ coPc = "idle"
    /\ dispatched = {}
    /\ emitted = {}
    /\ channel = <<>>
    /\ shownErrors = 0
    /\ reqStatus # "error"
    /\ ~reqHasErrors

InvalidContextStep ==
    /\ ProbeReportsInvalid =>
          /\ callerPc' = "invalidated"
          /\ shownErrors' = shownErrors
          /\ reqStatus' = reqStatus
    /\ callerPc' = "invalidated" => AbortedQuietly'

MaxStoreBatch == 3

InitStore ==
    /\ PlannerAtRest
    /\ ApplyAtRest
    /\ PageAtRest
    /\ RegistryAtRest
    /\ prBatch = <<>>
    /\ prReply = <<>>
    /\ prResult = <<>>
    /\ \E size \in 1..MaxStoreBatch : JobInit(<<>>, size)
    /\ sgTexts \in {<<t>> : t \in RawTexts(MaxRawLen)}
                   \cup {p \in {<<t, u>> : t \in RawTexts(MaxPairLen),
                                              u \in RawTexts(MaxPairLen)} :
                            p[1] # p[2]}
    /\ sgSegments = [i \in 1..Len(expandTextsForTranslation(sgTexts).expandedTexts) |-> Absent]
    /\ sgPc = "new"
    /\ sgPayload = <<>>
    /\ sgReply = <<>>
    /\ sgFinal = <<>>
    /\ sgResult = <<>>

\* what the backend returns for a batch: every text that is not empty
\* translated
BatchTranslations(originalBatch) ==
    [i \in 1..Len(originalBatch) |->
        IF originalBatch[i] = <<>> THEN <<>> ELSE Translate(originalBatch[i])]

\* the payload reaches the background: the batches are made of its texts
StoreBgStart ==
    /\ sgPc = "sent"
    /\ coPc = "idle"
    /\ coBatches' = _createOptimalBatches([i \in 1..Len(sgPayload) |-> sgPayload[i].text],
                                          JobBatchingConfig(jobBatchSize))
    /\ coPc' = "check"
    /\ coIdx' = 0
    /\ UNCHANGED <<sgTexts, sgSegments, sgPc, sgPayload, sgReply, sgFinal, sgResult>>

\* batch coIdx succeeds: its update is sent, and processStreamUpdate stores
\* it by _processStreamTranslationData
StoreStreamUpdate ==
    /\ coPc = "check"
    /\ coIdx < Len(coBatches)
    /\ LET originalBatch == Batch(coIdx)
           data == _streamBatchResults(BatchTranslations(originalBatch),
                                       originalBatch, coIdx)
       IN  sgSegments' = StreamDataLoop(1, data,
                             expandTextsForTranslation(sgTexts).expandedTexts,
                             sgSegments, <<>>).segments
    /\ coIdx' = coIdx + 1
    /\ UNCHANGED <<coPc, coBatches, sgTexts, sgPc, sgPayload, sgReply, sgFinal, sgResult>>

\* after the last batch the stream ends: _handleStreamEndSuccess
StoreStreamEnd ==
    /\ coPc = "check"
    /\ coIdx >= Len(coBatches)
    /\ StreamEndSuccess
    /\ coPc' = "done"
    /\ UNCHANGED <<coIdx, coBatches>>

StoreFrame ==
    UNCHANGED <<bpVars, jobVars, coError, tasks, engineCancelled, aborted,
                dispatched, emitted, channel, cancelPc, contentVars, apVars,
                parseVars, registryVars, pageVars>>

NextStore ==
    \/ SendPayload /\ UNCHANGED <<coPc, coIdx, coBatches>> /\ StoreFrame
    \/ StoreBgStart /\ StoreFrame
    \/ StoreStreamUpdate /\ StoreFrame
    \/ StoreStreamEnd /\ StoreFrame

SpecStore == InitStore /\ [][NextStore]_vars

\* every batch of the stream has been delivered as a success update
AllUpdatesDelivered ==
    /\ coPc \in {"check", "done"}
    /\ coIdx = Len(coBatches)

\* C30: after every batch of a job has been delivered as a success update,
\* translatedSegments has an entry of its own for every segment index that is
\* not an empty line, also when segments of the job have the same text.
C30_EverySegmentStored ==
    AllUpdatesDelivered =>
        \A i \in 1..Len(sgSegments) :
            ~expandTextsForTranslation(sgTexts).originMapping[i].isEmptyLine
                => sgSegments[i] # Absent

(***************************************************************************)
(* C31: nothing is streamed after the stream's end                         *)
(***************************************************************************)
\* the coordinator has sent the stream end, with or without the error flag
StreamEndEmitted == \E e \in emitted : e.msg.type = "end"

NothingAfterEndStep ==
    StreamEndEmitted => EmittedUpdates' = EmittedUpdates

\* C31: after the coordinator has sent the stream end of a job, successful or
\* not, no further stream update is sent for the job, also when the request
\* of a batch that lost the race against its timeout settles later or goes
\* into the per-segment fallback.
C31_NothingAfterEnd == [][NothingAfterEndStep]_vars

(***************************************************************************)
(* C32: one success update per segment                                     *)
(***************************************************************************)
\* the success updates sent so far that carry a translation of text
UpdatesCarrying(text) ==
    {e \in emitted :
        /\ e.msg.type = "update"
        /\ e.msg.success
        /\ \E i \in 1..Len(e.msg.originalData) : e.msg.originalData[i] = text}

\* C32: within one job the translation of each segment is carried by at most
\* one success stream update, also for a batch that was completed by the
\* per-segment fallback.
C32_OneUpdatePerSegment ==
    \A s \in 1..Len(jobTexts) : Cardinality(UpdatesCarrying(jobTexts[s])) <= 1

(***************************************************************************)
(* C33: no request is dispatched once the job is cancelled                 *)
(***************************************************************************)
NoDispatchOnceCancelledStep ==
    engineCancelled => dispatched' = dispatched

\* C33: once the engine's cancellation flag of the job is set, no further
\* backend request is sent for the job, the remaining per-segment requests
\* of a fallback in progress included.
C33_NoDispatchOnceCancelled == [][NoDispatchOnceCancelledStep]_vars

(***************************************************************************)
(* SpecEnd: the streaming job with a final application that may throw,     *)
(* under the scheduling of SpecLive                                        *)
(***************************************************************************)
MaxEndSegments == 2

InitEnd ==
    /\ PlannerAtRest
    /\ ApplyAtRest
    /\ PageAtRest
    /\ SegAtRest
    /\ \E n \in 1..MaxEndSegments : \E size \in 1..n :
          JobInit([i \in 1..n |-> SegmentText(i)], size)

\* the try block of _handleStreamEndSuccess throws before a text node is
\* changed: the catch block finds no translatedText in what
\* translatedSegments holds, applies nothing and returns; the status of the
\* request is left as it is
ApplyFinalThrows(j) ==
    /\ handlers[j].kind = "applyFinal"
    /\ handlers' = RemoveAt(handlers, j)
    /\ UNCHANGED <<reqStatus, reqHasErrors, translatedSegments, userCancelled,
                   holders, callerPc, isTranslationInProgress, shownErrors, dropLog>>

NextEnd ==
    \/ Next
    \/ (\E j \in 1..Len(handlers) : ApplyFinalThrows(j)) /\ ContentFrame

\* a step of the job other than the user's cancellation
ProgressEnd == NextEnd /\ userCancelled' = userCancelled

\* weak fairness of ProgressEnd; it is enabled where Progress is
FairProgressEnd == []<>(~ProgressEnabled) \/ []<><<ProgressEnd>>_vars

SpecEnd == InitEnd /\ [][NextEnd]_vars /\ FairProgressEnd

\* processStreamEnd has passed its entry checks and its handler is suspended
\* in the final application, in the retry or in showErrorToUser
StreamEndInProcess ==
    \E j \in 1..Len(handlers) : handlers[j].kind \in {"applyFinal", "retry", "showError"}

\* the request is completed, in error, cancelled or removed
RequestSettled == reqStatus \in {"completed", "error", "cancelled", "none"}

\* C34: every job for which a stream end is processed eventually is
\* completed, in error, cancelled or removed from the registry, also when the
\* final reassembly or application throws and when a retry with another
\* provider is started.
C34_StreamEndSettles == StreamEndInProcess ~> RequestSettled

\* the handler of a successful stream end leaves the final application
SuccessEndFinishes ==
    \E j \in 1..Len(handlers) :
        handlers[j].kind = "applyFinal" /\ handlers' = RemoveAt(handlers, j)

\* C34, as a property of the step in which the processing of a successful
\* stream end finishes: it leaves the request completed, in error, cancelled
\* or removed, also when the final reassembly or application throws.
C34_StreamEndFinishesSettled == [][SuccessEndFinishes => RequestSettled']_vars

(***************************************************************************)
(* C35: the flag of a job that has ended                                   *)
(***************************************************************************)
\* C35: whenever a select-element job has ended, in whichever way, and
\* nothing of it is left to run, window.isTranslationInProgress eventually is
\* false, so that a later startTranslation is not turned away for good.
C35_FlagCleared == JobSettled ~> ~isTranslationInProgress

\* the job has ended and no step of the program is left to take
JobAtEnd == JobSettled /\ ~ProgressEnabled

\* C35, as a property of the states in which the program has come to rest:
\* when a job has ended and nothing is left to run,
\* window.isTranslationInProgress is false.
C35_FlagClearedAtEnd == JobAtEnd => ~isTranslationInProgress

(***************************************************************************)
(* C36: no second job while the first is at work                           *)
(***************************************************************************)
\* the check of startTranslation lets a click start a job
AdmitsNewJob == ~isTranslationInProgress

\* the job was sent and not turned down, and it is pending or streaming or
\* its final result is being applied
JobAtWork ==
    /\ callerPc \in {"waiting", "returned"}
    /\ \/ hasActiveRequests(reqStatus)
       \/ \E j \in 1..Len(handlers) : handlers[j].kind = "applyFinal"

\* C36: a new select-element job is never admitted while an earlier job of
\* the same page is pending or streaming or while its final result is being
\* applied to the text nodes.
C36_NoOverlappingJob == JobAtWork => ~AdmitsNewJob

(***************************************************************************)
(* SpecBlank: applications onto the text nodes of a request of which some  *)
(* hold nothing but whitespace                                             *)
(***************************************************************************)
MaxBlankNodes == 3

\* a length above the 20 characters of isOriginalLongText and of a
\* substantial translation
LongLen == 21

\* text nodes of whitespace: a space, an empty line, a long indentation
BlankNodeTexts ==
    { <<" ">>, <<LineBreak, LineBreak>>, [i \in 1..LongLen |-> " "] }

\* translations: "He" and a long one
BlankResults == { <<"H", "e">>, [i \in 1..LongLen |-> "x"] }

\* the translation Maps over keys: some of the keys, in their order, each
\* with one result
RECURSIVE BlankMaps(_)
BlankMaps(keys) ==
    IF keys = <<>> THEN {<<>>}
    ELSE LET rest == BlankMaps(Tail(keys))
         IN  rest \cup { << <<Head(keys), r>> >> \o m : m \in rest, r \in BlankResults }

\* textsToTranslate: the texts of the text nodes that hold more than
\* whitespace
BlankKeys == SelectSeq(jobTexts, LAMBDA t : ~IsBlank(t))

InitBlank ==
    /\ PlannerAtRest
    /\ ApplyAtRest
    /\ PageAtRest
    /\ SegAtRest
    /\ \E nodeTexts \in SeqsUpTo(BlankNodeTexts \cup { <<"H", "i">>, <<"b", "y", "e">> },
                                  MaxBlankNodes) :
          /\ \A i, j \in 1..Len(nodeTexts) : i # j => nodeTexts[i] # nodeTexts[j]
          /\ \E i \in 1..Len(nodeTexts) : IsBlank(nodeTexts[i])
          /\ \E i \in 1..Len(nodeTexts) : ~IsBlank(nodeTexts[i])
          /\ JobInit(nodeTexts, 1)

\* a stream update's translations reach the text nodes
BlankApplyStreaming ==
    /\ Len(apApplied) < MaxApplications
    /\ \E newTranslations \in BlankMaps(BlankKeys) \ {<<>>} :
          /\ holders' = _applyStreamingTranslationsImmediately(holders, newTranslations)
          /\ apApplied' = Append(apApplied,
                Application("streaming", newTranslations, <<>>, {}))

\* applyTranslationsToNodes without isFinalResult
BlankApplyNonFinal ==
    /\ Len(apApplied) < MaxApplications
    /\ \E translations \in BlankMaps(BlankKeys) \ {<<>>} :
       \E skipStreamingUpdates \in BOOLEAN :
          /\ holders' = applyTranslationsToNodes(holders, translations, FALSE,
                                                 skipStreamingUpdates)
          /\ apApplied' = Append(apApplied,
                Application("non-final", translations, <<>>, {}))

\* the application of _handleStreamEndSuccess: the final result
BlankApplyFinal ==
    /\ Len(apApplied) < MaxApplications
    /\ \E translations \in BlankMaps(BlankKeys) \ {<<>>} :
          /\ holders' = applyTranslationsToNodes(holders, translations, TRUE, TRUE)
          /\ apApplied' = Append(apApplied,
                Application("final", translations, <<>>, {}))

NextBlank ==
    \/ BlankApplyStreaming /\ ApplyFrame
    \/ BlankApplyNonFinal /\ ApplyFrame
    \/ BlankApplyFinal /\ ApplyFrame

SpecBlank == InitBlank /\ [][NextBlank]_vars

\* C37: applyTranslationsToNodes never changes a text node that is empty or
\* holds nothing but whitespace, in whichever mode, the application of the
\* final result included: the node stays in place with its text and gets no
\* translation.
C37_BlankNodesPreserved ==
    \A i \in 1..Len(holders) :
        IsBlank(holders[i].text) => holders[i] = NewHolder(holders[i].text)

\* ---------------------------------------------------------------------
\* SpecCleanup: SelectElementManager.cleanup()
\* ---------------------------------------------------------------------

\* the translation side of the program while the page-level parts run
TranslationAtRest == PlannerAtRest /\ JobAtRest /\ ApplyAtRest /\ SegAtRest

PageFrame ==
    UNCHANGED <<bpVars, jobVars, bgVars, channel, cancelPc, contentVars,
                apVars, segVars, parseVars, registryVars>>

\* call-stack frames the engine can still give to cleanup() when it is
\* called; the engine decides it, the model draws it up to this bound
MaxStack == 12

\* the manager after construction, activated or not, its services
\* tracked, cleanup() not yet called.  depth counts the live frames of
\* cleanup(), calls its invocations, deactivations the runs of
\* deactivate(), released the releases of the tracked resources, outcome
\* how the promise of the outermost call settled
InitCleanup ==
    /\ TranslationAtRest
    /\ TtsAtRest
    /\ PollAtRest
    /\ \E active \in BOOLEAN, room \in 1..MaxStack :
         mgr = [isActive |-> active, room |-> room, pc |-> "idle",
                depth |-> 0, calls |-> 0, deactivations |-> 0,
                released |-> 0, outcome |-> "none"]

\* cleanup() is called: the frame logs and tests this.isActive
CleanupEnter ==
    /\ mgr.pc = "idle"
    /\ mgr' = [mgr EXCEPT !.pc = IF mgr.isActive THEN "deactivating"
                                                 ELSE "calling",
                          !.depth = 1, !.calls = 1]
    /\ UNCHANGED <<tts, poll>>

\* await this.deactivate(): the manager is no longer active
CleanupDeactivate ==
    /\ mgr.pc = "deactivating"
    /\ mgr' = [mgr EXCEPT !.isActive = FALSE, !.pc = "calling",
                          !.deactivations = @ + 1]
    /\ UNCHANGED <<tts, poll>>

\* this.cleanup(): the method calls itself, not the method of
\* ResourceTracker; the manager is inactive, so the new frame runs
\* without a pause to the same call
CleanupRecurse ==
    /\ mgr.pc = "calling"
    /\ mgr.depth < mgr.room
    /\ mgr' = [mgr EXCEPT !.depth = @ + 1, !.calls = @ + 1]
    /\ UNCHANGED <<tts, poll>>

\* a frame of cleanup() ends and hands its promise to its caller; the
\* outermost frame settles the promise of the call
FrameEnds(outcome) ==
    [mgr EXCEPT !.depth = @ - 1,
                !.pc = IF mgr.depth = 1 THEN "returned" ELSE "unwinding",
                !.outcome = IF mgr.depth = 1 THEN outcome ELSE @]

\* no frame is left for the call: the engine throws RangeError, the catch
\* block throws it again and the promise of this frame is rejected
CleanupOverflow ==
    /\ mgr.pc = "calling"
    /\ mgr.depth = mgr.room
    /\ mgr' = FrameEnds("rejected")
    /\ UNCHANGED <<tts, poll>>

\* the promise of the nested call is not awaited: the frame logs the
\* completion and resolves, or the logging overflows the stack as well
\* and the frame rejects
CleanupUnwind ==
    /\ mgr.pc = "unwinding"
    /\ \E outcome \in {"resolved", "rejected"} : mgr' = FrameEnds(outcome)
    /\ UNCHANGED <<tts, poll>>

NextCleanup ==
    \/ CleanupEnter /\ PageFrame
    \/ CleanupDeactivate /\ PageFrame
    \/ CleanupRecurse /\ PageFrame
    \/ CleanupOverflow /\ PageFrame
    \/ CleanupUnwind /\ PageFrame

SpecCleanup == InitCleanup /\ [][NextCleanup]_vars

CleanupReturned == mgr.pc = "returned"

\* C38: when cleanup() has returned, the manager is inactive, the tracked
\* resources have been released exactly once and cleanup() has been
\* entered once
C38_CleanupReleasesOnce ==
    CleanupReturned =>
        /\ ~mgr.isActive
        /\ mgr.released = 1
        /\ mgr.calls = 1

\* ---------------------------------------------------------------------
\* SpecSpeak: speak() and stopAll() of the TTS composable
\* ---------------------------------------------------------------------

\* speak() calls made on one composable
MaxSpeakCalls == 3

\* the texts handed to speak(): none, blank, or something to say
SpeakTexts == {<<>>, <<" ">>, <<"H", "i">>}

\* a speak() call that has not started
NewSpeakCall(text) == [text |-> text, pc |-> "new", result |-> "none"]

\* the composable after setup: isProcessing false, ttsState idle, no TTS
\* id; the calls the page is going to make
InitSpeak ==
    /\ TranslationAtRest
    /\ MgrAtRest
    /\ PollAtRest
    /\ \E n \in 1..MaxSpeakCalls :
         \E texts \in [1..n -> SpeakTexts] :
           tts = [isProcessing |-> FALSE, ttsState |-> "idle",
                  currentTTSId |-> 0,
                  calls |-> [c \in 1..n |-> NewSpeakCall(texts[c])]]

SpeakCalls == 1..Len(tts.calls)

\* speak(text): no text, or a request already being processed: false;
\* otherwise the flag is set and stopAll() sends the TTS_STOP message
SpeakEnter(c) ==
    /\ tts.calls[c].pc = "new"
    /\ tts' = IF Trim(tts.calls[c].text) = <<>> \/ tts.isProcessing
              THEN [tts EXCEPT !.calls[c].pc = "returned",
                               !.calls[c].result = "false"]
              ELSE [tts EXCEPT !.isProcessing = TRUE,
                               !.calls[c].pc = "stopping"]
    /\ UNCHANGED <<mgr, poll>>

\* stopAll() after its sendMessage: answered or thrown, the local state
\* is reset, the processing flag with it, and speak() goes on to prepare
\* the request
SpeakStopped(c) ==
    /\ tts.calls[c].pc = "stopping"
    /\ tts' = [tts EXCEPT !.isProcessing = FALSE, !.ttsState = "loading",
                          !.currentTTSId = c,
                          !.calls[c].pc = "preparing"]
    /\ UNCHANGED <<mgr, poll>>

\* after the language is known: sendMessage(GOOGLE_TTS_SPEAK)
SpeakSend(c) ==
    /\ tts.calls[c].pc = "preparing"
    /\ tts' = [tts EXCEPT !.calls[c].pc = "sent"]
    /\ UNCHANGED <<mgr, poll>>

\* the answer of the background: success, or nothing / an error, which
\* the catch block turns into false; finally the flag is reset
SpeakAnswered(c) ==
    /\ tts.calls[c].pc = "sent"
    /\ \E ok \in BOOLEAN :
         tts' = [tts EXCEPT !.isProcessing = FALSE,
                            !.ttsState = IF ok THEN "playing" ELSE "error",
                            !.currentTTSId = IF ok THEN @ ELSE 0,
                            !.calls[c].pc = "returned",
                            !.calls[c].result = IF ok THEN "true" ELSE "false"]
    /\ UNCHANGED <<mgr, poll>>

NextSpeak ==
    \/ (\E c \in SpeakCalls : SpeakEnter(c)) /\ PageFrame
    \/ (\E c \in SpeakCalls : SpeakStopped(c)) /\ PageFrame
    \/ (\E c \in SpeakCalls : SpeakSend(c)) /\ PageFrame
    \/ (\E c \in SpeakCalls : SpeakAnswered(c)) /\ PageFrame

SpecSpeak == InitSpeak /\ [][NextSpeak]_vars

\* the speak requests sent and not yet answered
SpeakInFlight == {c \in SpeakCalls : tts.calls[c].pc = "sent"}

\* the speak() calls past the duplicate test that have not returned
SpeakRunning == {c \in SpeakCalls : tts.calls[c].pc \in {"stopping", "preparing", "sent"}}

\* C39: at most one speak() call is past the duplicate test at a time, so
\* at most one speak request is in flight
C39_OneSpeakInFlight ==
    /\ Cardinality(SpeakRunning) <= 1
    /\ Cardinality(SpeakInFlight) <= 1

\* ---------------------------------------------------------------------
\* SpecPoll: the cancellation poll of sendRegularMessage
\* ---------------------------------------------------------------------

\* messages sent through sendRegularMessage
MaxMessages == 3

\* runs of checkCancellation counted per message
MaxTicks == 2

\* no message sent, the ESC flag of the window not set
InitPoll ==
    /\ TranslationAtRest
    /\ MgrAtRest
    /\ TtsAtRest
    /\ poll = [esc |-> FALSE, msgs |-> <<>>]

PollMessages == 1..Len(poll.msgs)

\* sendRegularMessage up to Promise.race: the message is sent and the
\* first checkCancellation is scheduled; stopped is what shouldContinue
\* says of the message id, isCancelled the flag of the closure
PollSend ==
    /\ Len(poll.msgs) < MaxMessages
    /\ poll' = [poll EXCEPT !.msgs = Append(@,
                   [status |-> "pending", timer |-> TRUE,
                    isCancelled |-> FALSE, stopped |-> FALSE,
                    ticks |-> 0])]
    /\ UNCHANGED <<mgr, tts>>

\* the race is won by the answer, by the timeout or by a send error
PollSettle(m) ==
    /\ poll.msgs[m].status = "pending"
    /\ \E outcome \in {"response", "timeout", "error"} :
         poll' = [poll EXCEPT !.msgs[m].status = outcome]
    /\ UNCHANGED <<mgr, tts>>

\* the streaming timeout manager no longer lets the message id continue
PollOperationCancelled(m) ==
    /\ ~poll.msgs[m].stopped
    /\ poll' = [poll EXCEPT !.msgs[m].stopped = TRUE]
    /\ UNCHANGED <<mgr, tts>>

\* ESC is handled: the flag is set, and reset 100 ms later
PollEscSet ==
    /\ ~poll.esc
    /\ poll' = [poll EXCEPT !.esc = TRUE]
    /\ UNCHANGED <<mgr, tts>>

PollEscReset ==
    /\ poll.esc
    /\ poll' = [poll EXCEPT !.esc = FALSE]
    /\ UNCHANGED <<mgr, tts>>

\* checkCancellation runs: a cancelled operation or the ESC flag rejects
\* the cancellation promise, which settles the race if it is still open,
\* and the poll ends; otherwise isCancelled is still false and the check
\* is scheduled again
checkCancellation(m) ==
    /\ poll.msgs[m].timer
    /\ poll.msgs[m].ticks < MaxTicks
    /\ poll' = IF poll.msgs[m].stopped \/ poll.esc
               THEN [poll EXCEPT !.msgs[m].isCancelled = TRUE,
                                 !.msgs[m].timer = FALSE,
                                 !.msgs[m].ticks = @ + 1,
                                 !.msgs[m].status =
                                     IF @ = "pending" THEN "cancelled" ELSE @]
               ELSE [poll EXCEPT !.msgs[m].timer = ~poll.msgs[m].isCancelled,
                                 !.msgs[m].ticks = @ + 1]
    /\ UNCHANGED <<mgr, tts>>

NextPoll ==
    \/ PollSend /\ PageFrame
    \/ (\E m \in PollMessages : PollSettle(m)) /\ PageFrame
    \/ (\E m \in PollMessages : PollOperationCancelled(m)) /\ PageFrame
    \/ PollEscSet /\ PageFrame
    \/ PollEscReset /\ PageFrame
    \/ (\E m \in PollMessages : checkCancellation(m)) /\ PageFrame

SpecPoll == InitPoll /\ [][NextPoll]_vars

MessageSettled(m) == poll.msgs[m].status # "pending"

\* checkCancellation has run for message m in this step
PollRan(m) == m <= Len(poll'.msgs) /\ poll'.msgs[m].ticks > poll.msgs[m].ticks

PollStopsStep ==
    \A m \in PollMessages :
        /\ (MessageSettled(m) /\ PollRan(m)) => ~poll'.msgs[m].timer
        /\ MessageSettled(m) => poll'.msgs[m].status = poll.msgs[m].status

\* C40: a run of checkCancellation for a settled message does not schedule
\* the next one, and the outcome of a settled message never changes
C40_PollStopsWhenSettled == [][PollStopsStep]_vars

====
